---- MODULE Spec2Model ----
(***************************************************************************)
(* State-machine model of the Monte Carlo engine (MonteCarloEngine), its   *)
(* three bootstrap samplers, the risk-measure engine                       *)
(* (computePortfolioRiskMeasures) and the ERC optimizer (ERCOptimizer).    *)
(*                                                                         *)
(* Doubles are modelled as exact rationals <<n, d>> with d > 0 in lowest   *)
(* terms; <<0, 0>> stands for NaN.  size_t arithmetic is modelled modulo   *)
(* 2^SizeBits.  The engine's std::mt19937 is modelled as a cyclic tape of  *)
(* levels r in 0..RngLevels-1, each draw consuming one level and the       *)
(* distributions mapping u = r / RngLevels through their inverse CDF.      *)
(***************************************************************************)
EXTENDS Integers, Sequences, FiniteSets, TLC

(***************************************************************************)
(* Bounds of the model                                                     *)
(***************************************************************************)
\* number of bits of the modelled size_t
SizeBits == 8
\* number of levels of one random draw
RngLevels == 4
\* length of the cyclic random tape
TapeLen == 3
\* selectCategory calls per engine
MaxSelectCalls == 2
\* largest iteration budget handed to solveERC
MaxIterationsBound == 2
\* largest block parameter handed to a sampler
MaxBlock == 3
\* calls made on one engine
MaxCalls == 3
MaxSamples == 3
\* scenario matrices handed to one risk-measure call
MaxScenarios == 5

Engines == {1, 2}

(***************************************************************************)
(* Exact rational arithmetic standing for double arithmetic                *)
(***************************************************************************)
RECURSIVE Gcd(_, _)
Gcd(a, b) == IF b = 0 THEN a ELSE Gcd(b, a % b)

IAbs(x) == IF x < 0 THEN -x ELSE x

Norm(n, d) ==
  IF d = 0 THEN <<0, 0>>
  ELSE LET g == Gcd(IAbs(n), IAbs(d))
           s == IF d < 0 THEN -1 ELSE 1
       IN  <<s * (n \div g), s * (d \div g)>>

NaN == <<0, 0>>
IsNaN(x) == x[2] = 0
R(n, d) == Norm(n, d)
Zero == <<0, 1>>
One == <<1, 1>>

\* sums, products and comparisons cancel common factors before they
\* multiply, so that intermediate integers stay small
RAdd(x, y) == IF IsNaN(x) \/ IsNaN(y) THEN NaN
              ELSE LET g == Gcd(x[2], y[2])
                   IN  Norm(x[1] * (y[2] \div g) + y[1] * (x[2] \div g),
                            (x[2] \div g) * y[2])
RNeg(x) == IF IsNaN(x) THEN NaN ELSE <<-x[1], x[2]>>
RSub(x, y) == RAdd(x, RNeg(y))
RMul(x, y) == IF IsNaN(x) \/ IsNaN(y) THEN NaN
              ELSE LET g1 == Gcd(IAbs(x[1]), y[2])
                       g2 == Gcd(IAbs(y[1]), x[2])
                   IN  Norm((x[1] \div g1) * (y[1] \div g2),
                            (x[2] \div g2) * (y[2] \div g1))
\* x / y; a zero divisor gives NaN (0/0) or an infinity, both kept as NaN
RDiv(x, y) == IF IsNaN(x) \/ IsNaN(y) \/ y[1] = 0 THEN NaN
              ELSE RMul(x, Norm(y[2], y[1]))
\* comparisons are false as soon as one side is NaN, as for doubles
RLt(x, y) == /\ ~IsNaN(x) /\ ~IsNaN(y)
             /\ LET g == Gcd(x[2], y[2])
                IN  x[1] * (y[2] \div g) < y[1] * (x[2] \div g)
RLe(x, y) == /\ ~IsNaN(x) /\ ~IsNaN(y)
             /\ LET g == Gcd(x[2], y[2])
                IN  x[1] * (y[2] \div g) <= y[1] * (x[2] \div g)
RGt(x, y) == RLt(y, x)
RGe(x, y) == RLe(y, x)
RAbs(x) == IF IsNaN(x) THEN NaN ELSE <<IAbs(x[1]), x[2]>>
\* std::max(a, b) == (a < b) ? b : a
RMax(a, b) == IF RLt(a, b) THEN b ELSE a
\* floor of a non-negative rational
RFloor(x) == x[1] \div x[2]

RECURSIVE VSum(_)
VSum(v) == IF v = <<>> THEN Zero ELSE RAdd(v[1], VSum(Tail(v)))

RECURSIVE VDot(_, _)
VDot(u, v) == IF u = <<>> \/ v = <<>> THEN Zero
              ELSE RAdd(RMul(u[1], v[1]), VDot(Tail(u), Tail(v)))

Const(n, x) == [i \in 1..n |-> x] \o <<>>

\* a sequence given as a function on 1..n, evaluated once as a tuple
Tuple(f) == f \o <<>>

\* a - b in size_t arithmetic
SizeMod == 2 ^ SizeBits
SizeSub(a, b) == (a - b) % SizeMod
\* std::vector<double>::max_size(): PTRDIFF_MAX / sizeof(double)
MaxVectorSize == SizeMod \div 16

(***************************************************************************)
(* Market tables (YFData): a date-ordered sequence of                      *)
(* category -> ticker -> value maps.  std::map iterates tickers in key     *)
(* order, given by TickerOrder.                                            *)
(***************************************************************************)
TickerOrder == <<"A", "B">>
Categories == {"Close", "Open"}

SortedKeys(S) == SelectSeq(TickerOrder, LAMBDA t : t \in S)

P(n) == R(n, 1)

\* four dates, every ticker priced on every date; "Open" only on the first
TableFull ==
  << [Close |-> [A |-> P(2), B |-> P(4)], Open |-> [A |-> P(1), B |-> P(1)]],
     [Close |-> [A |-> P(1), B |-> P(4)]],
     [Close |-> [A |-> P(2), B |-> P(2)]],
     [Close |-> [A |-> P(4), B |-> P(2)]] >>

\* the second date carries a NaN and is dropped: three retained dates
TableNaN ==
  << [Close |-> [A |-> P(2), B |-> P(2)]],
     [Close |-> [A |-> P(3), B |-> NaN]],
     [Close |-> [A |-> P(1), B |-> P(4)]],
     [Close |-> [A |-> P(2), B |-> P(2)]] >>

\* a single date: one price per ticker and an empty return matrix
TableOne ==
  << [Close |-> [A |-> P(2), B |-> P(4)]] >>

Tables == {TableFull, TableNaN, TableOne}

\* no date at all
TableEmpty == << >>

\* every date carries both categories; "Close" is priced throughout, every
\* date of "Open" holds a NaN
TableDead ==
  << [Close |-> [A |-> P(2), B |-> P(4)], Open |-> [A |-> NaN, B |-> P(1)]],
     [Close |-> [A |-> P(1), B |-> P(4)], Open |-> [A |-> P(1), B |-> NaN]],
     [Close |-> [A |-> P(2), B |-> P(2)], Open |-> [A |-> NaN, B |-> NaN]] >>

\* the second date lists no price of B under "Close" (a row of the input
\* that ends before its last column)
TableRagged ==
  << [Close |-> [A |-> P(2), B |-> P(4)]],
     [Close |-> [A |-> P(1)]],
     [Close |-> [A |-> P(2), B |-> P(2)]] >>

SelectTables == Tables \cup {TableEmpty, TableDead, TableRagged}

(***************************************************************************)
(* Matrices (Eigen::MatrixXd): [rows, cols, a] with a[i][j], 1-based       *)
(***************************************************************************)
EmptyMatrix == [rows |-> 0, cols |-> 0, a |-> <<>>]
MSize(m) == m.rows * m.cols

(***************************************************************************)
(* The random generator: a cyclic tape of levels                           *)
(***************************************************************************)
Tapes == [1..TapeLen -> 0..(RngLevels - 1)]
\* std::mt19937::seed(seed): the tape is a function of the seed only
Seeds == 0..1
SeedTape(seed) == [i \in 1..TapeLen |-> (seed * i + i * i) % RngLevels]
\* one draw: the level at the head, and the generator state after it
RngHead(rng) == rng[1]
RngNext(rng) == Tail(rng) \o <<rng[1]>>

VARIABLES
  marketData_, nSimulations_, nSamples_, alpha_, blockSize_,
  rng_, selectedData_, selectedDataReturns_, simulatedDataReturns_,
  availableTickers_, weightsVector_, riskContributions_,
  optimizer, lastCall, selectCalls, simLog, crashed, sortTies, threadSeed,
  riskCall, blockSizeArg

ctorVars == <<marketData_, nSimulations_, nSamples_, alpha_, blockSize_,
              sortTies, threadSeed, riskCall, blockSizeArg>>
dataVars == <<selectedData_, selectedDataReturns_, availableTickers_>>
vars == <<marketData_, nSimulations_, nSamples_, alpha_, blockSize_,
          rng_, selectedData_, selectedDataReturns_, simulatedDataReturns_,
          availableTickers_, weightsVector_, riskContributions_,
          optimizer, lastCall, selectCalls, simLog, crashed, sortTies,
          threadSeed, riskCall, blockSizeArg>>

(***************************************************************************)
(* Construction                                                            *)
(***************************************************************************)
NSimulationsSet == {2}
AlphaSet == {50}

\* what an out-of-bounds or uninitialized read can return: some double,
\* NaN included
Garbage == {R(9, 1), R(-1, 2), NaN}

\* the last call made on an engine: its name, its arguments, its error
\* ("none" when it returned), what it reported or returned, and the number
\* of calls so far
NoCall == [op |-> "none", in |-> <<>>, err |-> "none", arg |-> <<>>, n |-> 0]
\* no ERCOptimizer yet: the fields of the optimizer and the locals of
\* optimize, with pc its position and ended how its last run ended
IdleOptimizer ==
  [pc |-> "idle", ended |-> "never", nAssets_ |-> 0, nMaxIterations_ |-> 0,
   simMethod_ |-> "Vanilla", param1_ |-> <<0, 1>>, param2_ |-> <<0, 1>>,
   tol |-> <<0, 1>>, eps_rc |-> <<0, 1>>, damping |-> <<0, 1>>,
   w |-> <<>>, iter |-> 0, rc |-> <<>>, ES |-> <<0, 1>>, rel_dev |-> <<0, 1>>,
   pushed |-> <<>>, cycles |-> 0]
NoSelectedData == [t \in {} |-> <<>>]
\* a call of the free function computePortfolioRiskMeasures: its arguments,
\* and how it ended ("pending" before the call) with what result
RiskCall(simulatedReturns, weights, alpha, measure) ==
  [simulatedReturns |-> simulatedReturns, weights |-> weights, alpha |-> alpha,
   measure |-> measure, ended |-> "pending", results |-> <<>>]
NoRiskCall == RiskCall(<<>>, <<>>, 0, "VaR")

\* MonteCarloEngine::MonteCarloEngine: every engine gets its own copy of the
\* table and of the parameters; rng_ is seeded from std::random_device, the
\* blockSize argument is not stored and blockSize_ keeps its default 1.
\* threadSeed[e] is the seed the thread that owns engine e will hand to
\* setSeed (std::random_device{}() + t), one of seeds.
ConstructFrom(tables, simulations, tapes, tieOrders, samples, seeds) ==
  /\ sortTies \in tieOrders
  /\ threadSeed \in [Engines -> seeds]
  /\ \E tbl \in tables : marketData_ = [e \in Engines |-> tbl]
  /\ \E n \in simulations : nSimulations_ = [e \in Engines |-> n]
  /\ \E n \in samples : nSamples_ = [e \in Engines |-> n]
  /\ \E a \in AlphaSet : alpha_ = [e \in Engines |-> a]
  /\ blockSizeArg = [e \in Engines |-> 2]
  /\ blockSize_ = [e \in Engines |-> 1]
  /\ rng_ \in [Engines -> tapes]
  /\ selectedData_ = [e \in Engines |-> NoSelectedData]
  /\ selectedDataReturns_ = [e \in Engines |-> EmptyMatrix]
  /\ simulatedDataReturns_ = [e \in Engines |-> <<>>]
  /\ availableTickers_ = [e \in Engines |-> <<>>]
  /\ weightsVector_ = [e \in Engines |-> <<>>]
  /\ riskContributions_ = [e \in Engines |-> <<>>]
  /\ optimizer = [e \in Engines |-> IdleOptimizer]
  /\ lastCall = [e \in Engines |-> NoCall]
  /\ selectCalls = [e \in Engines |-> <<>>]
  /\ simLog = [e \in Engines |-> <<>>]
  /\ crashed = [e \in Engines |-> FALSE]

Construct(tapes, tieOrders, samples, seeds) ==
  /\ ConstructFrom(Tables, NSimulationsSet, tapes, tieOrders, samples, seeds)
  /\ riskCall = NoRiskCall

\* an engine accepts a call when no other call is running on it
Callable(e) == optimizer[e].pc = "idle" /\ ~crashed[e]

Called(e, op, in, err, arg) ==
  lastCall' = [lastCall EXCEPT ![e] =
                 [op |-> op, in |-> in, err |-> err, arg |-> arg, n |-> @.n + 1]]

\* the call in progress ends with err and result arg
Ended(e, op, err, arg) ==
  lastCall' = [lastCall EXCEPT ![e] =
                 [op |-> op, in |-> @.in, err |-> err, arg |-> arg, n |-> @.n]]

(***************************************************************************)
(* setSeed                                                                 *)
(***************************************************************************)
setSeed(e, seed) ==
  /\ Callable(e)
  /\ rng_' = [rng_ EXCEPT ![e] = SeedTape(seed)]
  /\ Called(e, "setSeed", <<seed>>, "none", <<>>)
  /\ UNCHANGED <<ctorVars, dataVars, simulatedDataReturns_, weightsVector_,
                 riskContributions_, optimizer, selectCalls, simLog, crashed>>

(***************************************************************************)
(* setWeights                                                              *)
(***************************************************************************)
WeightTol == R(1, 1000000)

\* setWeights without its length check
WeightsError_NoLengthCheck(weightsVector, nTickers) ==
  IF \E i \in 1..Len(weightsVector) : RLt(weightsVector[i], Zero)
       THEN "InvalidWeights"
  ELSE IF RGt(RAbs(RSub(VSum(weightsVector), One)), WeightTol)
       THEN "InvalidWeights"
  ELSE "none"

\* the three checks of setWeights, in the order the code makes them
WeightsError(weightsVector, nTickers) ==
  IF Len(weightsVector) # nTickers THEN "InvalidWeights"
  ELSE IF \E i \in 1..Len(weightsVector) : RLt(weightsVector[i], Zero)
       THEN "InvalidWeights"
  ELSE IF RGt(RAbs(RSub(VSum(weightsVector), One)), WeightTol)
       THEN "InvalidWeights"
  ELSE "none"

\* the weight vector stored after setWeights(weightsVector)
WeightsAfterSet(old, weightsVector, nTickers) ==
  IF WeightsError(weightsVector, nTickers) = "none" THEN weightsVector ELSE old

WeightInputs ==
  { <<One, Zero>>, <<R(1, 4), R(3, 4)>>,
    <<R(1, 3), R(1, 3), R(1, 3)>>, <<>>,
    <<R(3, 2), R(-1, 2)>>, <<R(1, 2), R(1, 4)>>,
    <<R(1, 2), R(250001, 500000)>>, <<NaN, R(1, 2)>> }

setWeights(e, weightsVector) ==
  /\ Callable(e)
  /\ weightsVector_' = [weightsVector_ EXCEPT ![e] =
       WeightsAfterSet(@, weightsVector, Len(availableTickers_[e]))]
  /\ Called(e, "setWeights", <<weightsVector>>,
            WeightsError(weightsVector, Len(availableTickers_[e])), <<>>)
  /\ UNCHANGED <<ctorVars, dataVars, rng_, simulatedDataReturns_,
                 riskContributions_, optimizer, selectCalls, simLog, crashed>>

(***************************************************************************)
(* selectCategory                                                          *)
(***************************************************************************)
\* selectedData_[ticker].push_back(value) for every ticker of one date
PushDate(sd, tickers) ==
  [t \in (DOMAIN sd) \cup (DOMAIN tickers) |->
     IF t \in DOMAIN tickers
     THEN (IF t \in DOMAIN sd THEN Append(sd[t], tickers[t]) ELSE <<tickers[t]>>)
     ELSE sd[t]]

\* the loop over the dates of selectCategory, from date i on; it stops at the
\* first date that lacks the category, keeping what it has pushed so far
RECURSIVE SelectLoop(_, _, _, _)
SelectLoop(table, i, category, sd) ==
  IF i > Len(table) THEN [sd |-> sd, err |-> "none"]
  ELSE IF category \notin DOMAIN table[i]
       THEN [sd |-> sd, err |-> "CategoryNotFound"]
  ELSE LET tickers == table[i][category]
           hasNaN == \/ DOMAIN tickers = {}
                     \/ \E t \in DOMAIN tickers : IsNaN(tickers[t])
       IN  IF hasNaN THEN SelectLoop(table, i + 1, category, sd)
           ELSE SelectLoop(table, i + 1, category, PushDate(sd, tickers))

\* computeSelectedDataReturns_: the matrix is sized from the first ticker;
\* cell (i, j) is written for i < values.size() of ticker j only, an unwritten
\* cell keeps whatever the fresh allocation holds (g)
ReturnRows(sd) == SizeSub(Len(sd[SortedKeys(DOMAIN sd)[1]]), 1)

SimpleReturn(values, i) == RDiv(RSub(values[i + 1], values[i]), values[i])

ComputeReturns(sd, g) ==
  LET keys == SortedKeys(DOMAIN sd)
      rows == ReturnRows(sd)
  IN  [rows |-> rows, cols |-> Len(keys),
       a |-> Tuple([i \in 1..rows |-> Tuple([j \in 1..Len(keys) |->
                IF i + 1 <= Len(sd[keys[j]])
                THEN SimpleReturn(sd[keys[j]], i) ELSE g])])]

\* some ticker has more prices than the first: a write below the last row
ReturnsWriteOutside(sd) ==
  \E t \in DOMAIN sd : Len(sd[t]) - 1 > ReturnRows(sd)
\* some ticker has fewer prices than the first: cells left unwritten
ReturnsUnwritten(sd) ==
  \E t \in DOMAIN sd : Len(sd[t]) - 1 < ReturnRows(sd)

\* setInitialWeights_: N push_backs of 1/N onto the vector as it is
InitialWeights(old, N) == old \o Const(N, R(1, N))

selectCategory(e, category) ==
  /\ Callable(e)
  /\ Len(selectCalls[e]) < MaxSelectCalls
  /\ LET run == SelectLoop(marketData_[e], 1, category, selectedData_[e])
         err == IF marketData_[e] = <<>> THEN "DataEmpty"
                ELSE IF run.err # "none" THEN run.err
                ELSE IF DOMAIN run.sd = {} THEN "EmptyCategory"
                ELSE "none"
     IN  /\ Called(e, "selectCategory", <<category>>, err, <<>>)
         /\ selectCalls' = [selectCalls EXCEPT ![e] = Append(@, err)]
         /\ IF err = "DataEmpty"
              THEN UNCHANGED <<dataVars, weightsVector_, crashed>>
            ELSE IF err = "CategoryNotFound"
              THEN /\ selectedData_' = [selectedData_ EXCEPT ![e] = run.sd]
                   /\ UNCHANGED <<selectedDataReturns_, availableTickers_,
                                  weightsVector_, crashed>>
            ELSE IF err = "EmptyCategory"
              THEN /\ availableTickers_' = [availableTickers_ EXCEPT ![e] = <<>>]
                   /\ UNCHANGED <<selectedData_, selectedDataReturns_,
                                  weightsVector_, crashed>>
            ELSE /\ selectedData_' = [selectedData_ EXCEPT ![e] = run.sd]
                 /\ availableTickers_' = [availableTickers_ EXCEPT ![e] =
                      SortedKeys(DOMAIN run.sd)]
                 /\ \E g \in (IF ReturnsUnwritten(run.sd) THEN Garbage ELSE {Zero}) :
                      selectedDataReturns_' = [selectedDataReturns_ EXCEPT ![e] =
                        ComputeReturns(run.sd, g)]
                 /\ weightsVector_' = [weightsVector_ EXCEPT ![e] =
                      InitialWeights(@, Cardinality(DOMAIN run.sd))]
                 /\ IF ReturnsWriteOutside(run.sd)
                      THEN crashed' \in {[crashed EXCEPT ![e] = b] : b \in BOOLEAN}
                      ELSE UNCHANGED crashed
  /\ UNCHANGED <<ctorVars, rng_, simulatedDataReturns_, riskContributions_,
                 optimizer, simLog>>

(***************************************************************************)
(* Random distributions, by inverse CDF on the level u = r / RngLevels     *)
(***************************************************************************)
\* std::uniform_int_distribution<size_t>(lo, hi)
UniformInt(r, lo, hi) == lo + ((r * (hi - lo + 1)) \div RngLevels)

\* std::discrete_distribution over prob[0..n-1]: the first index whose
\* cumulated probability exceeds u; an empty range always yields 0
RECURSIVE DiscreteFrom(_, _, _, _)
DiscreteFrom(prob, r, i, acc) ==
  IF i >= Len(prob) THEN Len(prob) - 1
  ELSE LET c == RAdd(acc, prob[i + 1])
       IN  IF RGt(c, R(r, RngLevels)) THEN i
           ELSE DiscreteFrom(prob, r, i + 1, c)
\* NaN probabilities (a zero sum of weights) compare false with every u, and
\* the search over the cumulated probabilities stops at index 0
Discrete(prob, r) ==
  IF prob = <<>> \/ IsNaN(VSum(prob)) THEN 0 ELSE DiscreteFrom(prob, r, 0, Zero)

\* std::geometric_distribution(p): failures before the first success,
\* the first k with 1 - (1 - p)^(k+1) > u
RECURSIVE GeometricFrom(_, _, _, _)
GeometricFrom(p, r, k, miss) ==
  LET m == RMul(miss, RSub(One, p))
  IN  IF RGt(RSub(One, m), R(r, RngLevels)) THEN k
      ELSE GeometricFrom(p, r, k + 1, m)
\* a geometric draw that counts the trials, the success included
Geometric_CountsTrials(p, r) == GeometricFrom(p, r, 0, One) + 1

Geometric(p, r) == GeometricFrom(p, r, 0, One)

(***************************************************************************)
(* The three samplers.  A sampler returns the writes it made, in order:    *)
(* [dst, idx, block, src] = output row, start index of the block, offset   *)
(* in the block, source row read (all 0-based), and the generator state.   *)
(***************************************************************************)
Write(dst, idx, block, src) == [dst |-> dst, idx |-> idx, block |-> block, src |-> src]

\* selectedDataReturns_.row(t); below the last row the read is outside
RowAt(ret, t, g) == IF t < ret.rows THEN ret.a[t + 1] ELSE Const(ret.cols, g)

RECURSIVE LastWrite(_, _, _)
LastWrite(log, dst, k) ==
  IF k = 0 THEN 0
  ELSE IF log[k].dst = dst THEN k ELSE LastWrite(log, dst, k - 1)

\* the matrix the writes leave in simulatedReturns(nSamples_, n_cols)
SimulatedMatrix(log, nSamples, ret, g) ==
  [rows |-> nSamples, cols |-> ret.cols,
   a |-> Tuple([i \in 1..nSamples |->
            LET k == LastWrite(log, i - 1, Len(log))
            IN  IF k = 0 THEN Const(ret.cols, g) ELSE RowAt(ret, log[k].src, g)])]

ReadsOutside(log, ret) == \E k \in 1..Len(log) : log[k].src >= ret.rows

\* --- runSingleSimulationVanilla -------------------------------------------
\* upper bound handed to uniform_int_distribution: (rows - blockSize) - 1
VanillaHi(rows, blockSize) == SizeSub(SizeSub(rows, blockSize), 1)

\* the start indices the tape levels produce
VanillaDraws(rows, blockSize) ==
  {UniformInt(r, 0, VanillaHi(rows, blockSize)) : r \in 0..(RngLevels - 1)}

\* the block loop without its break at nSamples_
VanillaBlock_NoBreak(nSamples, blockSize, row, idx) ==
  [block \in 1..blockSize |->
     Write(row * blockSize + block - 1, idx, block - 1, idx + block - 1)]

\* rows written by block number row: row*blockSize + block while < nSamples_
VanillaBlock(nSamples, blockSize, row, idx) ==
  LET n == IF (row + 1) * blockSize <= nSamples THEN blockSize
           ELSE IF row * blockSize >= nSamples THEN 0
           ELSE nSamples - row * blockSize
  IN  [block \in 1..n |->
         Write(row * blockSize + block - 1, idx, block - 1, idx + block - 1)]

RECURSIVE VanillaLoop(_, _, _, _, _, _)
VanillaLoop(rows, nSamples, blockSize, row, rng, log) ==
  IF row >= (nSamples \div blockSize) + 1 THEN [log |-> log, rng |-> rng]
  ELSE LET idx == UniformInt(RngHead(rng), 0, VanillaHi(rows, blockSize))
       IN  VanillaLoop(rows, nSamples, blockSize, row + 1, RngNext(rng),
                       log \o VanillaBlock(nSamples, blockSize, row, idx))

runSingleSimulationVanilla(ret, nSamples, blockSize, rng) ==
  VanillaLoop(ret.rows, nSamples, blockSize, 0, rng, <<>>)

\* --- runSingleSimulation (badness-weighted) --------------------------------
\* the weights the biased samplers use: weightsVector_, or 1/n_cols each
SamplerWeights(weights, nCols) ==
  IF weights = <<>> THEN Const(nCols, R(1, nCols)) ELSE weights

\* number of block starts: rows - blockSize + 1 in size_t
LambdaStarts(rows, blockSize) == (SizeSub(rows, blockSize) + 1) % SizeMod

\* max(0, -port_r) for the one-step portfolio return at row t
LossAt(ret, t, w, g) == RMax(Zero, RNeg(VDot(RowAt(ret, t, g), w)))

\* the badness added to the baseline without the factor lambda
LambdaScore_UnscaledBadness(ret, blockSize, lambda, w, g) ==
  Tuple([t \in 1..LambdaStarts(ret.rows, blockSize) |->
     LET loss_val == LossAt(ret, t - 1, w, g)
     IN  RAdd(RMul(loss_val, loss_val), RSub(One, lambda))])

LambdaScore(ret, blockSize, lambda, w, g) ==
  Tuple([t \in 1..LambdaStarts(ret.rows, blockSize) |->
     LET loss_val == LossAt(ret, t - 1, w, g)
     IN  RAdd(RMul(lambda, RMul(loss_val, loss_val)), RSub(One, lambda))])

\* prob[t] = score[t] / Z
Normalized(score) ==
  LET Z == VSum(score)
  IN  Tuple([t \in 1..Len(score) |-> RDiv(score[t], Z)])

LambdaProb(ret, blockSize, lambda, w, g) ==
  Normalized(LambdaScore(ret, blockSize, lambda, w, g))

RECURSIVE CopyBlock(_, _, _, _, _)
\* for (b = from; b < len && filled < nSamples_; ++b) row(filled++) = src(idx + b)
CopyBlock(nSamples, len, idx, filled, b) ==
  IF b >= len \/ filled >= nSamples THEN <<>>
  ELSE <<Write(filled, idx, b, idx + b)>>
         \o CopyBlock(nSamples, len, idx, filled + 1, b + 1)

RECURSIVE LambdaLoop(_, _, _, _, _, _)
LambdaLoop(prob, nSamples, blockSize, filled, rng, log) ==
  IF filled >= nSamples THEN [log |-> log, rng |-> rng]
  ELSE LET idx == Discrete(prob, RngHead(rng))
           blk == CopyBlock(nSamples, blockSize, idx, filled, 0)
       IN  LambdaLoop(prob, nSamples, blockSize, filled + Len(blk),
                      RngNext(rng), log \o blk)

runSingleSimulation(ret, weights, nSamples, blockSize, lambda, rng, g) ==
  LambdaLoop(LambdaProb(ret, blockSize, lambda,
                        SamplerWeights(weights, ret.cols), g),
             nSamples, blockSize, 0, rng, <<>>)

\* --- runSingleSimulationStationary ------------------------------------------
\* std::exp on the non-negative argument theta * loss, by its series up to
\* the second order (positive, increasing, 1 at 0)
Exp(x) == RAdd(One, RAdd(x, RDiv(RMul(x, x), R(2, 1))))

StationaryScore(ret, theta, w, g) ==
  Tuple([t \in 1..ret.rows |-> Exp(RMul(theta, LossAt(ret, t - 1, w, g)))])

StationaryProb(ret, theta, w, g) ==
  LET score == StationaryScore(ret, theta, w, g)
      Z == IF RLe(VSum(score), Zero) THEN One ELSE VSum(score)
  IN  Tuple([t \in 1..Len(score) |-> RDiv(score[t], Z)])

\* p = 1 / blockSizeMean, clamped to [1e-9, 1]
GeomP(blockSizeMean) ==
  LET p == IF blockSizeMean > 0 THEN R(1, blockSizeMean) ELSE One
  IN  IF RLt(p, R(1, 1000000000)) THEN R(1, 1000000000)
      ELSE IF RGt(p, One) THEN One ELSE p

\* getRow reading row t without the wrap
getRow_NoWrap(t, N) == t

\* the row index read by the helper getRow(t): circular access
getRow(t, N) == t % N

\* the block of one iteration of the fill loop: rows getRow(idx0 + b)
RECURSIVE WrapBlock(_, _, _, _, _, _)
WrapBlock(N, nSamples, L, idx0, filled, b) ==
  IF b >= L \/ filled >= nSamples THEN <<>>
  ELSE <<Write(filled, idx0, b, getRow(idx0 + b, N))>>
         \o WrapBlock(N, nSamples, L, idx0, filled + 1, b + 1)

RECURSIVE StationaryLoop(_, _, _, _, _, _, _)
StationaryLoop(prob, N, nSamples, p, filled, rng, log) ==
  IF filled >= nSamples THEN [log |-> log, rng |-> rng]
  ELSE LET idx0 == Discrete(prob, RngHead(rng))
           drawn == Geometric(p, RngHead(RngNext(rng))) + 1
           L == IF drawn > nSamples THEN nSamples ELSE drawn
           blk == WrapBlock(N, nSamples, L, idx0, filled, 0)
       IN  StationaryLoop(prob, N, nSamples, p, filled + Len(blk),
                          RngNext(RngNext(rng)), log \o blk)

runSingleSimulationStationary(ret, weights, nSamples, blockSizeMean, theta, rng, g) ==
  StationaryLoop(StationaryProb(ret, theta, SamplerWeights(weights, ret.cols), g),
                 ret.rows, nSamples, GeomP(blockSizeMean), 0, rng, <<>>)

(***************************************************************************)
(* runSimulation and the direct sampler calls                              *)
(***************************************************************************)
\* one sampler call with its own parameters
RunSingle(method, ret, weights, nSamples, blockSize, x, rng, g) ==
  IF method = "Vanilla"
    THEN runSingleSimulationVanilla(ret, nSamples, blockSize, rng)
  ELSE IF method = "LambdaBias"
    THEN runSingleSimulation(ret, weights, nSamples, blockSize, x, rng, g)
  ELSE runSingleSimulationStationary(ret, weights, nSamples, blockSize, x, rng, g)

\* the switch of runSimulation: the block parameter and the scalar handed
\* to the sampler of each method
MethodBlock(method, param1, blockSize) ==
  IF method = "LambdaBias" THEN blockSize
  ELSE IF RGt(param1, Zero) THEN RFloor(param1) ELSE blockSize
MethodScalar(method, param1, param2) ==
  IF method = "LambdaBias" THEN param1 ELSE param2

\* the loop of runSimulation: n sampler calls on the shared generator
RECURSIVE RunMany(_, _, _, _, _, _, _, _, _, _)
RunMany(n, method, ret, weights, nSamples, blockSize, x, rng, g, logs) ==
  IF n = 0 THEN [logs |-> logs, rng |-> rng]
  ELSE LET one == RunSingle(method, ret, weights, nSamples, blockSize, x, rng, g)
       IN  RunMany(n - 1, method, ret, weights, nSamples, blockSize, x,
                   one.rng, g, Append(logs, one.log))

\* a sampler reads outside the return matrix: in a write of the log, or
\* while scoring block starts past the last row
ScoresOutside(method, ret, blockSize) ==
  method = "LambdaBias" /\ LambdaStarts(ret.rows, blockSize) > ret.rows
AnyReadOutside(method, ret, blockSize, logs) ==
  \/ ScoresOutside(method, ret, blockSize)
  \/ \E i \in 1..Len(logs) : ReadsOutside(logs[i], ret)

\* what the last sampler run on an engine did: its parameters, the generator
\* state it started from, its writes and the matrices it returned
SimLogOf(method, blockSize, x, logs, rows, returned, rng) ==
  [method |-> method, blockSize |-> blockSize, x |-> x, logs |-> logs,
   rows |-> rows, returned |-> returned, rng |-> rng]

RECURSIVE WritesBefore(_, _, _)
\* the writes of one sampler call made before its first read outside
WritesBefore(log, ret, k) ==
  IF k > Len(log) \/ log[k].src >= ret.rows THEN <<>>
  ELSE <<log[k]>> \o WritesBefore(log, ret, k + 1)

RECURSIVE LogsBefore(_, _, _, _, _)
\* the writes of the sampler calls made before the first read outside
LogsBefore(method, ret, blockSize, logs, i) ==
  IF i > Len(logs) THEN <<>>
  ELSE IF ScoresOutside(method, ret, blockSize) THEN <<>>
  ELSE IF ReadsOutside(logs[i], ret) THEN <<WritesBefore(logs[i], ret, 1)>>
  ELSE <<logs[i]>> \o LogsBefore(method, ret, blockSize, logs, i + 1)

\* the stationary sampler testing for an empty history before it tests
\* for a missing return matrix
SamplerError_RowsFirst(method, ret, blockSize) ==
  IF method = "Stationary" /\ ret.rows = 0 THEN "EmptyReturns"
  ELSE IF MSize(ret) = 0 THEN "NoCategorySelected"
  ELSE IF method = "LambdaBias" /\ LambdaStarts(ret.rows, blockSize) > MaxVectorSize
    THEN "length_error"
  ELSE "none"

\* what a sampler throws before it draws anything
SamplerError(method, ret, blockSize) ==
  IF MSize(ret) = 0 THEN "NoCategorySelected"
  ELSE IF method = "Stationary" /\ ret.rows = 0 THEN "EmptyReturns"
  ELSE IF method = "LambdaBias" /\ LambdaStarts(ret.rows, blockSize) > MaxVectorSize
    THEN "length_error"
  ELSE "none"

\* the effect of n sampler calls on engine e: the generator, the log and the
\* scenario matrices, stored in simulatedDataReturns_ (store) or returned to
\* the caller; a read outside the return matrix either ends the process, the
\* writes before it made, or yields some value g (which a run without such a
\* read does not depend on)
Sample(e, n, method, blockSize, x, store) ==
  LET ret == selectedDataReturns_[e]
      g0 == CHOOSE h \in Garbage : TRUE
  IN  \E run0 \in {RunMany(n, method, ret, weightsVector_[e], nSamples_[e],
                            blockSize, x, rng_[e], g0, <<>>)} :
      \E outside \in {AnyReadOutside(method, ret, blockSize, run0.logs)} :
      \E g \in (IF outside THEN Garbage ELSE {g0}) :
      \E run \in {IF g = g0 THEN run0
                   ELSE RunMany(n, method, ret, weightsVector_[e], nSamples_[e],
                                blockSize, x, rng_[e], g, <<>>)} :
      \E crash \in (IF outside THEN BOOLEAN ELSE {FALSE}) :
      \E sims \in {IF crash THEN <<>>
                    ELSE Tuple([i \in 1..n |->
                           SimulatedMatrix(run.logs[i], nSamples_[e], ret, g)])} :
        /\ crashed' = [crashed EXCEPT ![e] = crash]
        /\ rng_' = [rng_ EXCEPT ![e] = run.rng]
        /\ simLog' = [simLog EXCEPT ![e] =
             IF crash
             THEN SimLogOf(method, blockSize, x,
                    LogsBefore(method, ret, blockSize, run.logs, 1),
                    ret.rows, <<>>, rng_[e])
             ELSE SimLogOf(method, blockSize, x, run.logs, ret.rows,
                           IF store THEN <<>> ELSE sims, rng_[e])]
        /\ IF store
             THEN simulatedDataReturns_' = [simulatedDataReturns_ EXCEPT ![e] = sims]
             ELSE UNCHANGED simulatedDataReturns_

\* what runSimulation throws: the error of its first sampler call
RunSimulationError(e, method, param1) ==
  IF nSimulations_[e] > 0
  THEN SamplerError(method, selectedDataReturns_[e],
                    MethodBlock(method, param1, blockSize_[e]))
  ELSE "none"

\* the body of runSimulation on engine e: simulatedDataReturns_.clear(),
\* then the loop over the simulations
RunSimulationBody(e, method, param1, param2) ==
  IF RunSimulationError(e, method, param1) # "none"
    THEN /\ simulatedDataReturns_' = [simulatedDataReturns_ EXCEPT ![e] = <<>>]
         /\ UNCHANGED <<rng_, simLog, crashed>>
    ELSE Sample(e, nSimulations_[e], method,
                MethodBlock(method, param1, blockSize_[e]),
                MethodScalar(method, param1, param2), TRUE)

runSimulation(e, method, param1, param2) ==
  /\ Callable(e)
  /\ RunSimulationBody(e, method, param1, param2)
  /\ Called(e, "runSimulation", <<method, param1, param2>>,
            RunSimulationError(e, method, param1), <<>>)
  /\ UNCHANGED <<ctorVars, dataVars, weightsVector_, riskContributions_,
                 optimizer, selectCalls>>

\* a direct call of one of the three public samplers
runSingle(e, method, blockSize, x) ==
  /\ Callable(e)
  /\ IF SamplerError(method, selectedDataReturns_[e], blockSize) # "none"
       THEN UNCHANGED <<rng_, simLog, crashed, simulatedDataReturns_>>
       ELSE Sample(e, 1, method, blockSize, x, FALSE)
  /\ Called(e, "runSingle", <<method, blockSize, x>>,
            SamplerError(method, selectedDataReturns_[e], blockSize), <<>>)
  /\ UNCHANGED <<ctorVars, dataVars, weightsVector_, riskContributions_,
                 optimizer, selectCalls>>

(***************************************************************************)
(* computePortfolioRiskMeasures and computeRiskContributions               *)
(***************************************************************************)
RECURSIVE ColProd(_, _, _)
\* prod over the rows t..rows of (1 + return) in column j
ColProd(m, j, t) ==
  IF t > m.rows THEN One ELSE RMul(RAdd(One, m.a[t][j]), ColProd(m, j, t + 1))

\* a loss row whose portfolio loss is the plain sum of the asset losses
LossRow_UnweightedPortfolio(m, weights, g) ==
  LET losses == Tuple([j \in 1..Len(weights) |->
                   IF j <= m.cols THEN RSub(One, ColProd(m, j, 1)) ELSE g])
  IN  Append(losses, VSum(losses))

\* row i of riskMeasureMatrix: the nAssets compounded losses and the
\* portfolio loss; a weight vector longer than the columns reads outside
LossRow(m, weights, g) ==
  LET losses == Tuple([j \in 1..Len(weights) |->
                   IF j <= m.cols THEN RSub(One, ColProd(m, j, 1)) ELSE g])
  IN  Append(losses, VDot(losses, weights))

\* std::sort of the scenario indices by portfolio loss.  Equal losses may
\* come out in either order: ties says which order this build produces
Before(pl, a, b, ties) ==
  \/ RLt(pl[a], pl[b])
  \/ /\ ~RLt(pl[a], pl[b]) /\ ~RLt(pl[b], pl[a])
     /\ (IF ties = "stable" THEN a < b ELSE a > b)

SortedIndices(pl, ties) ==
  Tuple([k \in 1..Len(pl) |->
     CHOOSE a \in 1..Len(pl) :
       Cardinality({b \in 1..Len(pl) : Before(pl, b, a, ties)}) = k - 1])

\* the pairs <<alpha, nSimulations>>, nSimulations <= 16, for which
\* (100 - alpha) * nSimulations / 100 is an integer and the double product
\* (1 - alpha / 100.0) * nSimulations comes out just below it: 1 - 0.8 is
\* 0.19999999999999996 and 1 - 0.9 is 0.09999999999999998
ShortProducts == {<<80, 5>>, <<80, 10>>, <<80, 15>>, <<90, 10>>}

\* floor((1 - alpha / 100.0) * nSimulations) of the double product, clamped
\* to nSimulations - 1 (for nSimulations <= 16)
QuantileIndex(alpha, nSimulations) ==
  LET exact == ((100 - alpha) * nSimulations) \div 100
      q == IF <<alpha, nSimulations>> \in ShortProducts THEN exact - 1 ELSE exact
  IN  IF q >= nSimulations THEN nSimulations - 1 ELSE q

RECURSIVE TailSum(_, _, _, _)
\* sum over the sorted positions i..nSimulations of column j
TailSum(M, indices, j, i) ==
  IF i > Len(indices) THEN Zero
  ELSE RAdd(M[indices[i]][j], TailSum(M, indices, j, i + 1))

computePortfolioRiskMeasures(simulatedReturns, weights, alpha, measure, ties, g) ==
  LET nSimulations == Len(simulatedReturns)
      nAssets == Len(weights)
      M == Tuple([i \in 1..nSimulations |->
                    LossRow(simulatedReturns[i], weights, g)])
      indices == SortedIndices(
                   Tuple([i \in 1..nSimulations |-> M[i][nAssets + 1]]), ties)
      q == QuantileIndex(alpha, nSimulations)
      raw == Tuple([j \in 1..(nAssets + 1) |->
                IF measure = "VaR" THEN M[indices[q + 1]][j]
                ELSE RDiv(TailSum(M, indices, j, q + 1), R(nSimulations - q, 1))])
  IN  Tuple([j \in 1..(nAssets + 1) |->
         IF j <= nAssets THEN RMul(raw[j], weights[j]) ELSE raw[j]])

\* the weight vector does not fit the scenario columns: the loss row is
\* assembled from reads outside the loss vector
RiskSizeMismatch(e) ==
  \E i \in 1..Len(simulatedDataReturns_[e]) :
    simulatedDataReturns_[e][i].cols # Len(weightsVector_[e])

RiskError(e) ==
  IF simulatedDataReturns_[e] = <<>> THEN "NoSimulationRun" ELSE "none"

\* the body of computeRiskContributions on engine e
RiskBody(e, measure) ==
  IF simulatedDataReturns_[e] = <<>>
    THEN UNCHANGED <<riskContributions_, crashed>>
    ELSE \E g \in (IF RiskSizeMismatch(e) THEN Garbage ELSE {Zero}) :
         \E crash \in (IF RiskSizeMismatch(e) THEN BOOLEAN ELSE {FALSE}) :
           /\ crashed' = [crashed EXCEPT ![e] = crash]
           /\ riskContributions_' = [riskContributions_ EXCEPT ![e] =
                IF crash THEN @
                ELSE computePortfolioRiskMeasures(simulatedDataReturns_[e],
                       weightsVector_[e], alpha_[e], measure, sortTies, g)]

computeRiskContributions(e, measure) ==
  /\ Callable(e)
  /\ RiskBody(e, measure)
  /\ Called(e, "computeRiskContributions", <<measure>>, RiskError(e), <<>>)
  /\ UNCHANGED <<ctorVars, dataVars, rng_, simulatedDataReturns_,
                 weightsVector_, optimizer, selectCalls, simLog>>

\* getPortfolioLoss
getPortfolioLoss(riskContributions) ==
  IF riskContributions = <<>> THEN Zero
  ELSE riskContributions[Len(riskContributions)]

(***************************************************************************)
(* ERCOptimizer::optimize, driven by solveERC                              *)
(***************************************************************************)
\* ES = getPortfolioLoss(); if (!(ES >= 0.0)) ES = std::abs(ES)
ErcES(riskContributions) ==
  LET ES == getPortfolioLoss(riskContributions)
  IN  IF ~RGe(ES, Zero) THEN RAbs(ES) ELSE ES

ErcTarget(ES, nAssets) == IF nAssets > 0 THEN RDiv(ES, R(nAssets, 1)) ELSE Zero

RECURSIVE MaxDev(_, _, _)
\* max_dev = max(max_dev, |rc[i] - target|) over the assets i..nAssets
MaxDev(rc, target, i) ==
  IF i = 0 THEN Zero
  ELSE RMax(MaxDev(rc, target, i - 1), RAbs(RSub(rc[i], target)))

RelDev(rc, ES, nAssets) ==
  LET max_dev == MaxDev(rc, ErcTarget(ES, nAssets), nAssets)
  IN  IF RGt(ES, Zero) THEN RDiv(max_dev, ES) ELSE max_dev

\* a proposal that divides by rc[i] itself, without the floor eps_rc
Proposal_NoFloor(w, rc, target, eps_rc, nAssets) ==
  LET raw == Tuple([i \in 1..nAssets |->
                LET v == RMul(w[i], RDiv(target, rc[i]))
                IN  IF RLt(v, Zero) THEN Zero ELSE v])
      sum_w == VSum(raw)
  IN  IF RLe(sum_w, Zero) THEN Const(nAssets, R(1, nAssets))
      ELSE Tuple([i \in 1..nAssets |-> RDiv(raw[i], sum_w)])

\* the multiplicative proposal, clamped at 0 and normalized, or uniform
Proposal(w, rc, target, eps_rc, nAssets) ==
  LET raw == Tuple([i \in 1..nAssets |->
                LET v == RMul(w[i], RDiv(target, RMax(rc[i], eps_rc)))
                IN  IF RLt(v, Zero) THEN Zero ELSE v])
      sum_w == VSum(raw)
  IN  IF RLe(sum_w, Zero) THEN Const(nAssets, R(1, nAssets))
      ELSE Tuple([i \in 1..nAssets |-> RDiv(raw[i], sum_w)])

\* the damped blend, renormalized when its sum is not 0
Blend(w, w_prop, damping, nAssets) ==
  LET mixed == Tuple([i \in 1..nAssets |->
                  RAdd(RMul(RSub(One, damping), w[i]), RMul(damping, w_prop[i]))])
      sum_after == VSum(mixed)
  IN  IF sum_after # Zero
      THEN Tuple([i \in 1..nAssets |-> RDiv(mixed[i], sum_after)])
      ELSE mixed

\* the weights after one non-converged iteration
UpdatedWeights(w, rc, ES, eps_rc, damping, nAssets) ==
  Blend(w, Proposal(w, rc, ErcTarget(ES, nAssets), eps_rc, nAssets),
        damping, nAssets)

Opt(e, changes) == optimizer' = [optimizer EXCEPT ![e] = changes]

\* solveERC builds the optimizer from availableTickers_.size() and the
\* arguments; optimize starts from the uniform weights
solveERC(e, maxIterations, simMethod, param1, param2, tol, eps_rc, damping) ==
  /\ Callable(e)
  /\ Opt(e, [pc |-> "loop", ended |-> "never",
             nAssets_ |-> Len(availableTickers_[e]),
             nMaxIterations_ |-> maxIterations, simMethod_ |-> simMethod,
             param1_ |-> param1, param2_ |-> param2,
             tol |-> tol, eps_rc |-> eps_rc, damping |-> damping,
             w |-> Const(Len(availableTickers_[e]),
                         R(1, Len(availableTickers_[e]))),
             iter |-> 0, rc |-> <<>>, ES |-> Zero, rel_dev |-> Zero,
             pushed |-> <<>>, cycles |-> 0])
  /\ Called(e, "solveERC", <<maxIterations, simMethod, param1, param2, tol,
                              eps_rc, damping>>, "running", <<>>)
  /\ UNCHANGED <<ctorVars, dataVars, rng_, simulatedDataReturns_,
                 weightsVector_, riskContributions_, selectCalls, simLog, crashed>>

\* an exception leaves optimize and solveERC
Throw(e, err) ==
  /\ Opt(e, [optimizer[e] EXCEPT !.pc = "idle", !.ended = "threw"])
  /\ Ended(e, "solveERC", err, <<>>)

\* a loop head that ignores the iteration budget
ErcPush_NoBudget(e) ==
  LET o == optimizer[e]
      err == WeightsError(o.w, Len(availableTickers_[e]))
  IN  /\ o.pc = "loop" /\ ~crashed[e]
      /\ o.cycles <= MaxIterationsBound
      /\ weightsVector_' = [weightsVector_ EXCEPT ![e] =
           WeightsAfterSet(@, o.w, Len(availableTickers_[e]))]
      /\ IF err # "none" THEN Throw(e, err)
         ELSE /\ Opt(e, [o EXCEPT !.pc = "simulate", !.pushed = Append(@, o.w)])
              /\ UNCHANGED lastCall
      /\ UNCHANGED <<ctorVars, dataVars, rng_, simulatedDataReturns_,
                     riskContributions_, selectCalls, simLog, crashed>>

\* loop head with budget left: mc_.setWeights(w)
ErcPush(e) ==
  LET o == optimizer[e]
      err == WeightsError(o.w, Len(availableTickers_[e]))
  IN  /\ o.pc = "loop" /\ ~crashed[e]
      /\ o.iter < o.nMaxIterations_
      /\ weightsVector_' = [weightsVector_ EXCEPT ![e] =
           WeightsAfterSet(@, o.w, Len(availableTickers_[e]))]
      /\ IF err # "none" THEN Throw(e, err)
         ELSE /\ Opt(e, [o EXCEPT !.pc = "simulate", !.pushed = Append(@, o.w)])
              /\ UNCHANGED lastCall
      /\ UNCHANGED <<ctorVars, dataVars, rng_, simulatedDataReturns_,
                     riskContributions_, selectCalls, simLog, crashed>>

\* an iteration that keeps the scenario set of the iteration before it
ErcSimulate_ReusesScenarios(e) ==
  LET o == optimizer[e]
  IN  /\ o.pc = "simulate" /\ ~crashed[e]
      /\ IF simulatedDataReturns_[e] # <<>> /\ o.iter >= 1
           THEN UNCHANGED <<rng_, simulatedDataReturns_, simLog, crashed>>
           ELSE RunSimulationBody(e, o.simMethod_, o.param1_, o.param2_)
      /\ IF RunSimulationError(e, o.simMethod_, o.param1_) # "none"
           THEN Throw(e, RunSimulationError(e, o.simMethod_, o.param1_))
         ELSE /\ Opt(e, [o EXCEPT !.pc = "measure", !.cycles = @ + 1])
              /\ UNCHANGED lastCall
      /\ UNCHANGED <<ctorVars, dataVars, weightsVector_, riskContributions_,
                     selectCalls>>

\* mc_.runSimulation(simMethod_, param1_, param2_)
ErcSimulate(e) ==
  LET o == optimizer[e]
  IN  /\ o.pc = "simulate" /\ ~crashed[e]
      /\ RunSimulationBody(e, o.simMethod_, o.param1_, o.param2_)
      /\ IF RunSimulationError(e, o.simMethod_, o.param1_) # "none"
           THEN Throw(e, RunSimulationError(e, o.simMethod_, o.param1_))
         ELSE /\ Opt(e, [o EXCEPT !.pc = "measure", !.cycles = @ + 1])
              /\ UNCHANGED lastCall
      /\ UNCHANGED <<ctorVars, dataVars, weightsVector_, riskContributions_,
                     selectCalls>>

\* rc = mc_.computeRiskContributions(RiskMeasure::ES), then ES, target and
\* rel_dev of this iteration
ErcMeasure(e) ==
  LET o == optimizer[e]
  IN  /\ o.pc = "measure" /\ ~crashed[e]
      /\ RiskBody(e, "ES")
      /\ LET all == riskContributions_'[e]
             rc == SubSeq(all, 1, Len(all) - 1)
             ES == ErcES(all)
         IN  IF RiskError(e) # "none" THEN Throw(e, RiskError(e))
             ELSE IF Len(rc) # o.nAssets_
               THEN Throw(e, "RiskContributionSizeMismatch")
             ELSE /\ Opt(e, [o EXCEPT !.pc = "check", !.rc = rc, !.ES = ES,
                               !.rel_dev = RelDev(rc, ES, o.nAssets_)])
                  /\ UNCHANGED lastCall
      /\ UNCHANGED <<ctorVars, dataVars, rng_, simulatedDataReturns_,
                     weightsVector_, selectCalls, simLog>>

\* a convergence check that applies the weight update before it breaks
ErcCheck_UpdateBeforeBreak(e) ==
  LET o == optimizer[e]
      w_new == UpdatedWeights(o.w, o.rc, o.ES, o.eps_rc, o.damping, o.nAssets_)
  IN  /\ o.pc = "check" /\ ~crashed[e]
      /\ IF RLe(o.rel_dev, o.tol)
           THEN Opt(e, [o EXCEPT !.pc = "converged", !.w = w_new])
           ELSE Opt(e, [o EXCEPT !.pc = "loop", !.iter = @ + 1, !.w = w_new])
      /\ UNCHANGED <<ctorVars, dataVars, rng_, simulatedDataReturns_,
                     weightsVector_, riskContributions_, lastCall,
                     selectCalls, simLog, crashed>>

\* the convergence check: break, or update the weights and iterate
ErcCheck(e) ==
  LET o == optimizer[e]
  IN  /\ o.pc = "check" /\ ~crashed[e]
      /\ IF RLe(o.rel_dev, o.tol)
           THEN Opt(e, [o EXCEPT !.pc = "converged"])
           ELSE Opt(e, [o EXCEPT !.pc = "loop", !.iter = @ + 1,
                          !.w = UpdatedWeights(o.w, o.rc, o.ES, o.eps_rc,
                                               o.damping, o.nAssets_)])
      /\ UNCHANGED <<ctorVars, dataVars, rng_, simulatedDataReturns_,
                     weightsVector_, riskContributions_, lastCall,
                     selectCalls, simLog, crashed>>

\* return w: after the break, or when the budget is used up
ErcReturn(e) ==
  LET o == optimizer[e]
  IN  /\ ~crashed[e]
      /\ \/ o.pc = "converged"
         \/ o.pc = "loop" /\ o.iter >= o.nMaxIterations_
      /\ Opt(e, [o EXCEPT !.pc = "idle",
                   !.ended = IF o.pc = "converged" THEN "converged" ELSE "exhausted"])
      /\ Ended(e, "solveERC", "none", o.w)
      /\ UNCHANGED <<ctorVars, dataVars, rng_, simulatedDataReturns_,
                     weightsVector_, riskContributions_, selectCalls, simLog,
                     crashed>>

ErcStep(e) ==
  ErcPush(e) \/ ErcSimulate(e) \/ ErcMeasure(e) \/ ErcCheck(e) \/ ErcReturn(e)

(***************************************************************************)
(* Inputs of the calls                                                     *)
(***************************************************************************)
BlockInputs == 1..MaxBlock
LambdaInputs == {Zero, R(1, 2), One}
ThetaInputs == {Zero, One}
\* <<method, param1, param2>> of runSimulation and solveERC
SimInputs ==
  { <<"Vanilla", P(1), Zero>>, <<"Vanilla", P(MaxBlock), Zero>>,
    <<"LambdaBias", R(1, 2), Zero>>, <<"Stationary", P(2), One>> }
\* <<method, param1, param2, tol, eps_rc, damping>> of solveERC
ErcInputs ==
  { <<"Vanilla", P(1), Zero, R(1, 8), R(1, 16), R(1, 2)>>,
    <<"Vanilla", P(MaxBlock), Zero, One, R(1, 16), One>>,
    <<"Vanilla", P(MaxBlock), Zero, R(1, 8), R(1, 16), R(1, 2)>>,
    <<"LambdaBias", R(1, 2), Zero, One, R(1, 16), R(1, 2)>>,
    <<"Stationary", P(2), One, R(1, 8), R(1, 16), One>> }

(***************************************************************************)
(* Specification of one engine driven through its public interface         *)
(***************************************************************************)
Init == /\ Construct({SeedTape(s) : s \in Seeds}, {"stable"}, {2}, {0})
        /\ rng_[2] = SeedTape(0)

\* a caller makes at most MaxCalls calls on an engine
Budget(e) == lastCall[e].n < MaxCalls

Idle(e) == optimizer[e].pc = "idle"

\* engines 1 and 2 have completed the same calls
Level == lastCall[1].n = lastCall[2].n /\ Idle(1) /\ Idle(2)

\* when a call is made on engine e: by a caller of e "alone" at any time; of
\* two engines driven alike, the "leader" 1 makes its next call when 2 has
\* caught up, and the "follower" 2 makes a call when 1 has completed one more
MayCall(e, who) ==
  IF who = "alone" THEN Budget(e)
  ELSE IF who = "leader" THEN Level /\ lastCall[e].n >= 1 /\ Budget(e)
  ELSE lastCall[e].n < lastCall[1].n /\ Idle(1)

\* the follower's call is the call the leader made, with its arguments
SameCall(e, who) ==
  who = "follower" =>
    lastCall'[e].op = lastCall[1].op /\ lastCall'[e].in = lastCall[1].in

\* the calls of the public interface on engine e
Calls(e, who) ==
  \/ /\ MayCall(e, who)
     /\ \E seed \in Seeds : setSeed(e, seed)
     /\ SameCall(e, who)
  \/ /\ MayCall(e, who)
     /\ \E c \in Categories : selectCategory(e, c)
     /\ SameCall(e, who)
  \/ /\ MayCall(e, who)
     /\ \E w \in WeightInputs : setWeights(e, w)
     /\ SameCall(e, who)
  \/ /\ MayCall(e, who)
     /\ \E s \in SimInputs : runSimulation(e, s[1], s[2], s[3])
     /\ SameCall(e, who)
  \/ /\ MayCall(e, who)
     /\ \E m \in {"VaR", "ES"} : computeRiskContributions(e, m)
     /\ SameCall(e, who)
  \/ /\ MayCall(e, who)
     /\ \E n \in 0..MaxIterationsBound, p \in ErcInputs :
          solveERC(e, n, p[1], p[2], p[3], p[4], p[5], p[6])
     /\ SameCall(e, who)

Next == Calls(1, "alone") \/ ErcStep(1)

Spec == Init /\ [][Next]_vars

(***************************************************************************)
(* Specification of the three samplers called directly, on every generator *)
(* state and every number of samples up to MaxSamples: one sampler call,   *)
(* after the selectCategory and setWeights calls that prepare the engine   *)
(***************************************************************************)
InitSampler == /\ Construct(Tapes, {"stable"}, 1..MaxSamples, {0})
               /\ rng_[2] = rng_[1]

NextSampler ==
  \/ lastCall[1].n = 0 /\ selectCategory(1, "Close")
  \/ lastCall[1].op = "selectCategory" /\ setWeights(1, <<R(1, 4), R(3, 4)>>)
  \/ /\ lastCall[1].op # "runSingle"
     /\ \E b \in BlockInputs : runSingle(1, "Vanilla", b, Zero)
  \/ /\ lastCall[1].op # "runSingle"
     /\ \E b \in BlockInputs, lambda \in LambdaInputs :
          runSingle(1, "LambdaBias", b, lambda)
  \/ /\ lastCall[1].op # "runSingle"
     /\ \E b \in BlockInputs, theta \in ThetaInputs :
          runSingle(1, "Stationary", b, theta)

SpecSampler == InitSampler /\ [][NextSampler]_vars

(***************************************************************************)
(* Specification of two engines built alike and driven through the same    *)
(* calls: engine 1 makes a call, the first one a setSeed, and runs it to    *)
(* its end; engine 2 then makes the same call with the same arguments      *)
(***************************************************************************)
InitPair == Construct({SeedTape(s) : s \in Seeds}, {"stable"}, {2}, {0})

\* engine 1 makes its first call, a setSeed
LeadSeed == Level /\ lastCall[1].n = 0 /\ \E seed \in Seeds : setSeed(1, seed)

LeadStep == ErcStep(1)

FollowStep == Idle(1) /\ ErcStep(2)

NextPair ==
  \/ LeadSeed
  \/ Calls(1, "leader")
  \/ LeadStep
  \/ Calls(2, "follower")
  \/ FollowStep

SpecPair == InitPair /\ [][NextPair]_vars

(***************************************************************************)
(* Specification of runProgressiveERC for one slice of the data: every     *)
(* thread owns an engine built from the slice, seeds it, selects "Close"   *)
(* and solves the ERC problem once per method; the threads interleave      *)
(***************************************************************************)
\* the configuration of runProgressiveERC, its numbers scaled to the bounds
\* of the model: the vanilla block size (15) reaches the number of return
\* rows of a short slice, the stationary mean block length (10) is below it
optimizerIters == MaxIterationsBound
tol == R(1, 8)
eps_rc == R(1, 16)
damping == R(1, 2)
vanillaBlockSize == MaxBlock
lambdaBias == R(1, 2)
stationaryBlockSize == 2
thetaTilt == One

\* the methods in the order of the std::map that holds them, by name
MethodOrder == <<"LambdaBias", "Stationary", "Vanilla">>

\* a slice has at least 2 dates (cutoff >= 2)
InitConc ==
  /\ Construct({SeedTape(s) : s \in Seeds}, {"stable"}, {2}, Seeds)
  /\ Len(marketData_[1]) >= 2

\* the process runs as long as no thread has ended it
Running == \A f \in Engines : ~crashed[f]

\* the statements of the thread that owns engine e
ThreadSeed(e) == Running /\ lastCall[e].n = 0 /\ setSeed(e, threadSeed[e])

ThreadSelect(e) == Running /\ lastCall[e].n = 1 /\ selectCategory(e, "Close")

ThreadSolve(e) ==
  /\ Running
  /\ lastCall[e].n \in 2..(Len(MethodOrder) + 1)
  /\ lastCall[e].err = "none"
  /\ LET method == MethodOrder[lastCall[e].n - 1]
     IN  IF method = "Vanilla"
           THEN solveERC(e, optimizerIters, method, P(vanillaBlockSize),
                         Zero, tol, eps_rc, damping)
         ELSE IF method = "LambdaBias"
           THEN solveERC(e, optimizerIters, method, lambdaBias, Zero,
                         tol, eps_rc, damping)
         ELSE solveERC(e, optimizerIters, method, P(stationaryBlockSize),
                       thetaTilt, tol, eps_rc, damping)

ThreadOptimize(e) == Running /\ ErcStep(e)

ThreadStep(e) ==
  ThreadSeed(e) \/ ThreadSelect(e) \/ ThreadSolve(e) \/ ThreadOptimize(e)

NextConc == \E e \in Engines : ThreadStep(e)

SpecConc == InitConc /\ [][NextConc]_vars

(***************************************************************************)
(* Properties                                                              *)
(***************************************************************************)
\* exactly one selectCategory call was made on e, and it succeeded
SelectedOnce(e) == selectCalls[e] = <<"none">>

NAssets(e) == Len(availableTickers_[e])

\* N entries, none negative, summing to 1 within 1e-6
ValidWeights(w, N) ==
  /\ Len(w) = N
  /\ \A i \in 1..Len(w) : ~IsNaN(w[i]) /\ w[i][1] >= 0
  /\ RLe(RAbs(RSub(VSum(w), One)), R(1, 1000000))

\* C1: after one successful selectCategory, whatever setWeights calls and
\* solveERC runs follow, the stored weight vector has N entries, all >= 0,
\* summing to 1 within 1e-6, and so has every vector the optimizer is about
\* to push or has pushed into the engine
C1_WeightsStayValid ==
  \A e \in Engines :
    SelectedOnce(e) =>
      /\ ValidWeights(weightsVector_[e], NAssets(e))
      /\ optimizer[e].pc # "idle" => ValidWeights(optimizer[e].w, NAssets(e))
      /\ lastCall[e].op = "solveERC" => lastCall[e].err # "InvalidWeights"

\* the three ways a vector handed to setWeights is invalid
BadLength(v, N) == Len(v) # N
HasNegative(v) == \E i \in 1..Len(v) : v[i][1] < 0
BadSum(v) ==
  LET d == RSub(VSum(v), One)
  IN  d[1] * 1000000 > d[2] \/ (-d[1]) * 1000000 > d[2]

\* C2: setWeights with a vector of the wrong length, with a negative entry or
\* with a sum off 1 by more than 1e-6 fails with InvalidWeights and leaves
\* the stored weight vector as it was
C2_InvalidWeightsRejected ==
  [][\A e \in Engines : \A v \in WeightInputs :
       (setWeights(e, v)
          /\ (BadLength(v, NAssets(e)) \/ HasNegative(v) \/ BadSum(v)))
       => (/\ lastCall'[e].err = "InvalidWeights"
           /\ weightsVector_'[e] = weightsVector_[e])]_vars

\* a 3-entry vector was refused on a 2-asset portfolio, the stored one kept
C2_Witness ==
  /\ lastCall[1].op = "setWeights" /\ lastCall[1].err = "InvalidWeights"
  /\ Len(lastCall[1].in[1]) = 3 /\ NAssets(1) = 2
  /\ weightsVector_[1] = <<R(1, 4), R(3, 4)>>

\* how far optimize is from its return: the iterations left, then the
\* position inside the iteration
Rank(o) ==
  IF o.pc = "idle" THEN 0
  ELSE IF o.pc = "converged" THEN 1
  ELSE 4 * (o.nMaxIterations_ - o.iter)
         + (IF o.pc = "loop" THEN 5 ELSE IF o.pc = "simulate" THEN 4
            ELSE IF o.pc = "measure" THEN 3 ELSE 2)

\* C3: optimize terminates: every step of a run brings it closer to its
\* return, it makes at most maxIterations simulate-and-measure cycles, a used
\* up budget ends in a normal return of the weights, and a budget of 0
\* returns the uniform weights without any simulation
C3_OptimizeTerminates ==
  [][\A e \in Engines :
       LET o == optimizer[e]
           n == optimizer'[e]
       IN  /\ (o.pc # "idle" /\ n # o) => (Rank(n) < Rank(o) /\ Rank(n) >= 0)
           /\ n.cycles <= n.nMaxIterations_ /\ n.iter <= n.nMaxIterations_
           /\ (o.pc = "loop" /\ o.iter >= o.nMaxIterations_ /\ n # o) =>
                /\ n.pc = "idle" /\ n.ended = "exhausted"
                /\ lastCall'[e].err = "none" /\ lastCall'[e].arg = o.w
                /\ Len(o.w) = o.nAssets_
           /\ (n.pc = "idle" /\ n.ended \in {"exhausted", "converged"}
                 /\ n.nMaxIterations_ = 0) =>
                /\ n.cycles = 0 /\ n.ended = "exhausted"
                /\ n.w = Const(n.nAssets_, R(1, n.nAssets_))]_vars

\* a run used up a budget of at least one iteration and returned normally
C3_Witness ==
  /\ optimizer[1].pc = "idle" /\ optimizer[1].ended = "exhausted"
  /\ optimizer[1].cycles = optimizer[1].nMaxIterations_
  /\ optimizer[1].nMaxIterations_ >= 1
  /\ lastCall[1].op = "solveERC" /\ lastCall[1].err = "none"

\* the state right after solveERC returned on e
JustReturned(e) == lastCall[e].op = "solveERC" /\ lastCall[e].err = "none"

\* C4: optimize returns before its budget is used up exactly when an
\* iteration measured rel_dev <= tol; that iteration updates no weight, so
\* the weights returned are the ones pushed into the engine and evaluated in
\* it; an iteration that measured rel_dev <= tol is never followed by another
C4_StopsOnlyOnConvergence ==
  \A e \in Engines :
    LET o == optimizer[e]
    IN  /\ JustReturned(e) =>
             /\ (o.iter < o.nMaxIterations_) <=>
                  (o.cycles >= 1 /\ RLe(o.rel_dev, o.tol))
             /\ (o.iter < o.nMaxIterations_) <=> (o.ended = "converged")
             /\ o.ended = "converged" =>
                  /\ lastCall[e].arg = o.pushed[Len(o.pushed)]
                  /\ lastCall[e].arg = weightsVector_[e]
                  /\ o.cycles = o.iter + 1
        /\ (o.pc \in {"loop", "simulate", "measure"} /\ o.iter >= 1) =>
             ~RLe(o.rel_dev, o.tol)

\* a run converged in its second iteration, on weights it had updated
C4_Witness ==
  /\ JustReturned(1) /\ optimizer[1].ended = "converged"
  /\ optimizer[1].iter = 1 /\ optimizer[1].nMaxIterations_ = 2
  /\ lastCall[1].arg # Const(2, R(1, 2))

(***************************************************************************)
(* The samplers                                                            *)
(***************************************************************************)
\* a sampler has run on e; simLog[e] describes its last run
Sampled(e) == DOMAIN simLog[e] # {}

\* the output rows one sampler call wrote
Dsts(log) == {log[k].dst : k \in 1..Len(log)}

\* every write of the returned matrix m put source row src into row dst
CopiedRows(m, log, ret) ==
  \A k \in 1..Len(log) :
    log[k].src < ret.rows /\ m.a[log[k].dst + 1] = ret.a[log[k].src + 1]

\* C7: whatever the sampler, the number of samples, the block parameter and
\* the draws, no write of a sampler call targets a row >= samples, no row is
\* written twice, a call that returns has written every row 0..samples-1,
\* and the matrix it returns has samples rows and N columns
C7_EveryRowWrittenOnce ==
  \A e \in Engines :
    Sampled(e) =>
      LET s == simLog[e]
      IN  /\ \A i \in 1..Len(s.logs) :
                LET log == s.logs[i]
                IN  /\ \A k \in 1..Len(log) : log[k].dst < nSamples_[e]
                    /\ \A k, l \in 1..Len(log) :
                         k # l => log[k].dst # log[l].dst
                    /\ ~crashed[e] => Dsts(log) = 0..(nSamples_[e] - 1)
          /\ \A i \in 1..Len(s.returned) :
                /\ s.returned[i].rows = nSamples_[e]
                /\ s.returned[i].cols = NAssets(e)
                /\ Len(s.returned[i].a) = nSamples_[e]
                /\ \A r \in 1..nSamples_[e] :
                     Len(s.returned[i].a[r]) = NAssets(e)

\* a vanilla call with blocks of 2 filled 3 rows: its second block was cut
C7_Witness ==
  /\ Sampled(1) /\ ~crashed[1] /\ simLog[1].method = "Vanilla"
  /\ simLog[1].blockSize = 2 /\ nSamples_[1] = 3
  /\ Len(simLog[1].logs[1]) = 3 /\ Len(simLog[1].returned) = 1

\* C8: the vanilla sampler with 1 <= b <= T only copies source blocks: the
\* write at offset block of output block k goes to row k*b + block and reads
\* source row s + block of a start s with s + b - 1 <= T - 1, so every row
\* read is inside the return matrix and the returned row equals it
C8_VanillaCopiesSourceBlocks ==
  \A e \in Engines :
    (Sampled(e) /\ simLog[e].method = "Vanilla"
       /\ simLog[e].blockSize >= 1 /\ simLog[e].blockSize <= simLog[e].rows) =>
      LET s == simLog[e]
      IN  /\ ~crashed[e]
          /\ \A i \in 1..Len(s.logs) : \A k \in 1..Len(s.logs[i]) :
                LET w == s.logs[i][k]
                IN  /\ w.dst = (w.dst \div s.blockSize) * s.blockSize + w.block
                    /\ w.src = w.idx + w.block
                    /\ w.idx + s.blockSize - 1 <= s.rows - 1
          /\ \A i \in 1..Len(s.returned) :
                CopiedRows(s.returned[i], s.logs[i], selectedDataReturns_[e])

\* C9: the vanilla sampler with 1 <= b <= T draws its block starts from
\* exactly 0..T-b: every index of the range is drawn at some level of the
\* generator, the last admissible start T-b included, and none outside is
C9_VanillaStartsCoverRange ==
  \A e \in Engines :
    (Sampled(e) /\ simLog[e].method = "Vanilla"
       /\ simLog[e].blockSize >= 1 /\ simLog[e].blockSize <= simLog[e].rows) =>
      LET s == simLog[e]
      IN  /\ VanillaDraws(s.rows, s.blockSize) = 0..(s.rows - s.blockSize)
          /\ \A i \in 1..Len(s.logs) : \A k \in 1..Len(s.logs[i]) :
                s.logs[i][k].idx \in 0..(s.rows - s.blockSize)

\* C10: in the stationary sampler the start idx0 of a block is in 0..T-1
\* and the write at offset k of the block reads source row (idx0 + k) mod T,
\* which the returned matrix holds in the row written
C10_StationaryWraps ==
  \A e \in Engines :
    (Sampled(e) /\ simLog[e].method = "Stationary") =>
      LET s == simLog[e]
      IN  /\ ~crashed[e]
          /\ \A i \in 1..Len(s.logs) : \A k \in 1..Len(s.logs[i]) :
                LET w == s.logs[i][k]
                IN  /\ w.idx \in 0..(s.rows - 1)
                    /\ w.src = (w.idx + w.block) % s.rows
          /\ \A i \in 1..Len(s.returned) :
                CopiedRows(s.returned[i], s.logs[i], selectedDataReturns_[e])

\* a block that started on the last row of the history went on with row 0
C10_Witness ==
  /\ Sampled(1) /\ ~crashed[1] /\ simLog[1].method = "Stationary"
  /\ Len(simLog[1].returned) = 1
  /\ \E k \in 1..Len(simLog[1].logs[1]) :
       LET w == simLog[1].logs[1][k]
       IN  w.idx = simLog[1].rows - 1 /\ w.block = 1 /\ w.src = 0

\* the generator state after n draws
RECURSIVE Drawn(_, _)
Drawn(rng, n) == IF n = 0 THEN rng ELSE Drawn(RngNext(rng), n - 1)

\* the blocks of one sampler call: its writes at offset 0
Blocks(log) == {k \in 1..Len(log) : log[k].block = 0}

\* C11: a stationary call that returns has made at most samples block draws,
\* two generator draws each, every block holding at least one row; with a
\* mean block length of 1 every block has length exactly 1: each of the
\* samples rows is the start row of its own draw, the k-th row being the
\* start the (2k-1)-th draw of the call selects
C11_StationaryMeanOneIsIid ==
  \A e \in Engines :
    (Sampled(e) /\ simLog[e].method = "Stationary" /\ ~crashed[e]
       /\ Len(simLog[e].logs) = 1) =>
      LET s == simLog[e]
          log == s.logs[1]
          prob == StationaryProb(selectedDataReturns_[e], s.x,
                    SamplerWeights(weightsVector_[e], selectedDataReturns_[e].cols),
                    Zero)
      IN  /\ Cardinality(Blocks(log)) \in 1..nSamples_[e]
          /\ log[1].block = 0
          /\ rng_[e] = Drawn(s.rng, 2 * Cardinality(Blocks(log)))
          /\ \A b \in BlockInputs : \A r \in 0..(RngLevels - 1) :
                /\ Geometric(GeomP(b), r) + 1 >= 1
                /\ b = 1 => Geometric(GeomP(b), r) + 1 = 1
          /\ s.blockSize = 1 =>
                /\ Len(log) = nSamples_[e]
                /\ \A k \in 1..Len(log) :
                     /\ log[k].block = 0 /\ log[k].dst = k - 1
                     /\ log[k].src = log[k].idx
                     /\ log[k].idx =
                          Discrete(prob, RngHead(Drawn(s.rng, 2 * (k - 1))))

\* a mean-1 call filled 3 rows from 3 draws, not all of the same start
C11_Witness ==
  /\ Sampled(1) /\ ~crashed[1] /\ simLog[1].method = "Stationary"
  /\ simLog[1].blockSize = 1 /\ nSamples_[1] = 3
  /\ Len(simLog[1].logs) = 1 /\ Len(simLog[1].logs[1]) = 3
  /\ simLog[1].logs[1][1].src # simLog[1].logs[1][2].src

\* the last call on e was a badness-weighted sampler call that drew blocks
LambdaCall(e) ==
  Sampled(e) /\ simLog[e].method = "LambdaBias"

\* C12: with lambda = 0 and a block that fits the return matrix, every block
\* start 0..T-b has probability 1/(T-b+1), whatever the returns, the
\* weights and the unset cells hold, and every drawn start is one of them
C12_LambdaZeroIsUniform ==
  \A e \in Engines :
    (LambdaCall(e) /\ simLog[e].x = Zero
       /\ simLog[e].blockSize <= simLog[e].rows) =>
      LET s == simLog[e]
          ret == selectedDataReturns_[e]
          n == s.rows - s.blockSize + 1
      IN  /\ \A g \in Garbage :
                LambdaProb(ret, s.blockSize, Zero,
                           SamplerWeights(weightsVector_[e], ret.cols), g)
                  = Const(n, R(1, n))
          /\ \A i \in 1..Len(s.logs) : \A k \in 1..Len(s.logs[i]) :
                s.logs[i][k].idx \in 0..(n - 1)

\* a lambda = 0 call with two starts, one of which carries a loss
C12_Witness ==
  /\ LambdaCall(1) /\ simLog[1].x = Zero /\ ~crashed[1]
  /\ simLog[1].blockSize = 2 /\ simLog[1].rows = 3
  /\ RLt(Zero, LossAt(selectedDataReturns_[1], 0,
                      SamplerWeights(weightsVector_[1], 2), Zero))
  /\ \E k \in 1..Len(simLog[1].logs[1]) : simLog[1].logs[1][k].idx = 1

\* C13: for every lambda in [0, 1] and a block that fits the return matrix,
\* the scores of the block starts sum to more than 0, and every start whose
\* one-step portfolio return is not negative has a probability above 0
C13_StartDistributionWellDefined ==
  \A e \in Engines :
    (LambdaCall(e) /\ simLog[e].blockSize <= simLog[e].rows) =>
      LET s == simLog[e]
          ret == selectedDataReturns_[e]
          w == SamplerWeights(weightsVector_[e], ret.cols)
          score == LambdaScore(ret, s.blockSize, s.x, w, Zero)
          prob == LambdaProb(ret, s.blockSize, s.x, w, Zero)
      IN  /\ RGt(VSum(score), Zero)
          /\ \A t \in 1..Len(prob) :
                RGe(VDot(RowAt(ret, t - 1, Zero), w), Zero) => RGt(prob[t], Zero)

(***************************************************************************)
(* Specification of category selection: one engine on every table, tables  *)
(* without dates or without a usable category included, with and without   *)
(* simulations to run; the caller selects categories and samples, in any   *)
(* order                                                                   *)
(***************************************************************************)
InitSelect ==
  /\ ConstructFrom(SelectTables, {0, 2}, {SeedTape(0)}, {"stable"}, {2}, {0})
  /\ riskCall = NoRiskCall

NextSelect ==
  \/ Budget(1) /\ \E c \in Categories : selectCategory(1, c)
  \/ Budget(1) /\ \E m \in {"Vanilla", "LambdaBias", "Stationary"} :
                    \E b \in 1..2 : runSingle(1, m, b, Zero)
  \/ Budget(1) /\ \E s \in SimInputs : runSimulation(1, s[1], s[2], s[3])

SpecSelect == InitSelect /\ [][NextSelect]_vars

\* no selectCategory call on e has returned
NeverSelected(e) == \A i \in 1..Len(selectCalls[e]) : selectCalls[e][i] # "none"

\* no sampler has written a row on e, and e holds no scenario matrix
NoScenario(e) ==
  /\ Sampled(e) => simLog[e].logs = <<>> /\ simLog[e].returned = <<>>
  /\ simulatedDataReturns_[e] = <<>>

\* the last call on e, a sampler or runSimulation, threw NoCategorySelected
\* and no scenario matrix was returned or stored
FailsUnselected(e) ==
  lastCall[e].err = "NoCategorySelected" /\ NoScenario(e)

\* C14 as stated: on an engine no selectCategory call has returned on, each
\* sampler and runSimulation with each method fail with NoCategorySelected
\* and yield no scenario matrix
C14_UnselectedCallsFail ==
  \A e \in Engines :
    (NeverSelected(e) /\ lastCall[e].op \in {"runSingle", "runSimulation"})
      => FailsUnselected(e)

\* C14 amended: the samplers always fail so; runSimulation fails so when
\* nSimulations >= 1, and with nSimulations = 0 it returns without an error,
\* the scenario set empty
C14_UnselectedCallsFailIfAnyRun ==
  \A e \in Engines :
    NeverSelected(e) =>
      /\ lastCall[e].op = "runSingle" => FailsUnselected(e)
      /\ (lastCall[e].op = "runSimulation" /\ nSimulations_[e] >= 1)
           => FailsUnselected(e)
      /\ (lastCall[e].op = "runSimulation" /\ nSimulations_[e] = 0)
           => lastCall[e].err = "none" /\ NoScenario(e)

\* runSimulation failed after a selectCategory call that threw
C14_Witness ==
  /\ selectCalls[1] # <<>> /\ NeverSelected(1) /\ nSimulations_[1] = 2
  /\ lastCall[1].op = "runSimulation" /\ lastCall[1].in[1] = "Stationary"
  /\ FailsUnselected(1)

\* date i of the table carries the category, lists a ticker and holds no NaN
Survives(table, category, i) ==
  /\ category \in DOMAIN table[i]
  /\ DOMAIN table[i][category] # {}
  /\ \A t \in DOMAIN table[i][category] : ~IsNaN(table[i][category][t])

\* the dates of the table that survive the NaN filter, in table order
Kept(table, category) ==
  SelectSeq(Tuple([i \in 1..Len(table) |-> i]),
            LAMBDA i : Survives(table, category, i))

\* the outcome the table and the category call for
Outcome(table, category) ==
  IF table = <<>> THEN "DataEmpty"
  ELSE IF \E i \in 1..Len(table) : category \notin DOMAIN table[i]
    THEN "CategoryNotFound"
  ELSE IF Kept(table, category) = <<>> THEN "EmptyCategory"
  ELSE "none"

\* C19: selectCategory ends in the one outcome its table and category call
\* for: DataEmpty without dates, CategoryNotFound when a date lacks the
\* category, EmptyCategory when every date has it and none survives the NaN
\* filter, and success otherwise, the asset list and a return matrix with a
\* column per asset built
C19_SelectOutcomes ==
  \A e \in Engines :
    lastCall[e].op = "selectCategory" =>
      /\ lastCall[e].err = Outcome(marketData_[e], lastCall[e].in[1])
      /\ lastCall[e].err = "none" =>
            /\ availableTickers_[e] = SortedKeys(DOMAIN selectedData_[e])
            /\ availableTickers_[e] # <<>>
            /\ selectedDataReturns_[e].cols = Len(availableTickers_[e])

\* a selectCategory call on e returned in this step
Selects(e) ==
  /\ lastCall'[e].op = "selectCategory" /\ lastCall'[e].n = lastCall[e].n + 1
  /\ lastCall'[e].err = "none"

\* C20: a selectCategory call that returns has appended, to the sequence of
\* every selected ticker, one price of each date that survives the NaN
\* filter and nothing else; no selected price is NaN; and when no selected
\* price is zero the return matrix holds no NaN
C20_DatesAllOrNothing ==
  [][\A e \in Engines : Selects(e) =>
       LET table == marketData_[e]
           category == lastCall'[e].in[1]
           kept == Kept(table, category)
           sd == selectedData_'[e]
           was(t) == IF t \in DOMAIN selectedData_[e]
                     THEN selectedData_[e][t] ELSE <<>>
       IN  /\ \A t \in DOMAIN sd :
                /\ \A k \in 1..Len(kept) : t \in DOMAIN table[kept[k]][category]
                /\ sd[t] = was(t) \o Tuple([k \in 1..Len(kept) |->
                                             table[kept[k]][category][t]])
                /\ \A k \in 1..Len(sd[t]) : ~IsNaN(sd[t][k])
           /\ (\A t \in DOMAIN sd : \A k \in 1..Len(sd[t]) : sd[t][k] # Zero)
                => \A i \in 1..selectedDataReturns_'[e].rows :
                     \A j \in 1..selectedDataReturns_'[e].cols :
                       ~IsNaN(selectedDataReturns_'[e].a[i][j])]_vars

\* the last call on e was a selectCategory call that returned
Selected(e) == lastCall[e].op = "selectCategory" /\ lastCall[e].err = "none"

\* C26: after selectCategory calls that all returned, the engine holds what
\* one call with the last category on a fresh engine produces: every
\* retained date once in every ticker's prices, a return matrix of
\* (retained dates - 1) rows and N columns, and N weights of 1/N
C26_SelectionIsRebuilt ==
  \A e \in Engines :
    (Selected(e) /\ \A i \in 1..Len(selectCalls[e]) : selectCalls[e][i] = "none")
      => LET category == lastCall[e].in[1]
             fresh == SelectLoop(marketData_[e], 1, category, NoSelectedData).sd
             N == Cardinality(DOMAIN fresh)
         IN  /\ selectedData_[e] = fresh
             /\ selectedDataReturns_[e].rows
                  = Len(Kept(marketData_[e], category)) - 1
             /\ selectedDataReturns_[e].cols = N
             /\ weightsVector_[e] = Const(N, R(1, N))

\* a selectCategory call on e threw in this step
SelectFails(e) ==
  /\ lastCall'[e].op = "selectCategory" /\ lastCall'[e].n = lastCall[e].n + 1
  /\ lastCall'[e].err # "none"

\* C27: a selectCategory call that throws leaves the selected prices, the
\* asset list, the return matrix and the weights as they were
C27_FailedSelectChangesNothing ==
  [][\A e \in Engines : SelectFails(e) =>
       /\ selectedData_'[e] = selectedData_[e]
       /\ availableTickers_'[e] = availableTickers_[e]
       /\ selectedDataReturns_'[e] = selectedDataReturns_[e]
       /\ weightsVector_'[e] = weightsVector_[e]]_vars

\* C28: after a selectCategory call that returned, every ticker holds the
\* same number of prices, every cell (t, j) of the return matrix is
\* (p_j[t+1] - p_j[t]) / p_j[t], and no write fell outside the matrix
C28_ReturnMatrixRectangular ==
  \A e \in Engines :
    (Selected(e) /\ ~crashed[e]) =>
      LET sd == selectedData_[e]
          keys == SortedKeys(DOMAIN sd)
          ret == selectedDataReturns_[e]
      IN  /\ \A t, u \in DOMAIN sd : Len(sd[t]) = Len(sd[u])
          /\ ~ReturnsWriteOutside(sd)
          /\ \A i \in 1..ret.rows : \A j \in 1..ret.cols :
                /\ i + 1 <= Len(sd[keys[j]])
                /\ ret.a[i][j] = SimpleReturn(sd[keys[j]], i)

\* C30: a selectCategory call that returned has built a return matrix of at
\* least one row, and a sampler called next with a block size within the
\* row count does not throw NoCategorySelected
C30_SelectedMatrixHasRows ==
  \A e \in Engines :
    /\ Selected(e) => selectedDataReturns_[e].rows >= 1
    /\ (/\ lastCall[e].op = "runSingle"
         /\ Len(selectCalls[e]) >= 1
         /\ selectCalls[e][Len(selectCalls[e])] = "none"
         /\ lastCall[e].in[2] <= selectedDataReturns_[e].rows)
          => lastCall[e].err # "NoCategorySelected"

\* C24: the scenarios runSimulation builds with the badness-weighted method,
\* called directly or by solveERC, consist of blocks of the block size the
\* engine was constructed with, the last block of a scenario cut where the
\* scenario ends
C24_LambdaUsesConfiguredBlock ==
  \A e \in Engines :
    (LambdaCall(e) /\ ~crashed[e]) =>
      \A i \in 1..Len(simLog[e].logs) :
        \A k \in 1..Len(simLog[e].logs[i]) :
          simLog[e].logs[i][k].block = simLog[e].logs[i][k].dst % blockSizeArg[e]

(***************************************************************************)
(* Specification of solveERC on a table whose two assets move against each *)
(* other, so that an iteration can measure ES = 0 with contributions that  *)
(* are not 0                                                               *)
(***************************************************************************)
\* A falls from 2 to 1 while B rises from 2 to 3, then A recovers
TableOpposed ==
  << [Close |-> [A |-> P(2), B |-> P(2)]],
     [Close |-> [A |-> P(1), B |-> P(3)]],
     [Close |-> [A |-> P(2), B |-> P(3)]] >>

InitOpposed ==
  /\ ConstructFrom({TableOpposed}, {2}, {SeedTape(s) : s \in Seeds},
                   {"stable"}, {1}, {0})
  /\ riskCall = NoRiskCall

NextOpposed ==
  \/ Budget(1) /\ selectCategory(1, "Close")
  \/ Budget(1) /\ \E n \in 0..MaxIterationsBound, p \in ErcInputs :
                    solveERC(1, n, p[1], p[2], p[3], p[4], p[5], p[6])
  \/ ErcStep(1)

SpecOpposed == InitOpposed /\ [][NextOpposed]_vars

(***************************************************************************)
(* Specification of computePortfolioRiskMeasures called on its own: on     *)
(* every sequence of 1..MaxScenarios scenario matrices, with weight        *)
(* vectors of the matrices' width and of other lengths, three confidence   *)
(* levels, both measures, and either order of equal losses                 *)
(***************************************************************************)
\* scenarios of two samples and two assets, with compounded asset losses
\* (1/2, 0), (0, 1/2) and (0, 3/4)
ScenarioInputs ==
  { [rows |-> 2, cols |-> 2, a |-> << <<Zero, Zero>>, <<R(-1, 2), Zero>> >>],
    [rows |-> 2, cols |-> 2, a |-> << <<Zero, Zero>>, <<Zero, R(-1, 2)>> >>],
    [rows |-> 2, cols |-> 2,
     a |-> << <<One, R(-1, 2)>>, <<R(-1, 2), R(-1, 2)>> >>] }

RECURSIVE SeqsUpTo(_, _)
\* the non-empty sequences over S of length up to n
SeqsUpTo(S, n) ==
  IF n = 0 THEN {}
  ELSE LET shorter == SeqsUpTo(S, n - 1)
       IN  {<<x>> : x \in S} \cup shorter
             \cup {Append(q, x) : q \in shorter, x \in S}

RiskWeightInputs ==
  { <<R(1, 2), R(1, 2)>>, <<R(1, 4), R(3, 4)>>,
    <<One>>, <<R(1, 2), R(1, 4), R(1, 4)>> }
RiskAlphaInputs == {5, 50, 80}

InitRisk ==
  /\ ConstructFrom({TableOne}, NSimulationsSet, {SeedTape(0)},
                   {"stable", "reversed"}, {2}, {0})
  /\ \E sims \in SeqsUpTo(ScenarioInputs, MaxScenarios) :
     \E w \in RiskWeightInputs, alpha \in RiskAlphaInputs :
     \E measure \in {"VaR", "ES"} :
       riskCall = RiskCall(sims, w, alpha, measure)

\* the call: a weight vector longer than a scenario is wide reads outside
\* the loss vector, which yields some value or ends the process
CallRiskMeasures ==
  /\ riskCall.ended = "pending"
  /\ \E outside \in {\E i \in 1..Len(riskCall.simulatedReturns) :
                        riskCall.simulatedReturns[i].cols < Len(riskCall.weights)} :
     \E g \in (IF outside THEN Garbage ELSE {Zero}) :
     \E crash \in (IF outside THEN BOOLEAN ELSE {FALSE}) :
       riskCall' = [riskCall EXCEPT
         !.ended = IF crash THEN "crashed" ELSE "returned",
         !.results = IF crash THEN <<>>
                     ELSE computePortfolioRiskMeasures(riskCall.simulatedReturns,
                            riskCall.weights, riskCall.alpha, riskCall.measure,
                            sortTies, g)]
  /\ UNCHANGED <<marketData_, nSimulations_, nSamples_, alpha_, blockSize_,
                 sortTies, threadSeed, blockSizeArg, dataVars, rng_,
                 simulatedDataReturns_, weightsVector_, riskContributions_,
                 optimizer, lastCall, selectCalls, simLog, crashed>>

SpecRisk == InitRisk /\ [][CallRiskMeasures]_vars

\* every scenario of the call is as wide as the weight vector is long
Fits == \A i \in 1..Len(riskCall.simulatedReturns) :
          riskCall.simulatedReturns[i].cols = Len(riskCall.weights)

\* the call returned a result for the measure, on arguments that fit
RiskReturned(measure) ==
  riskCall.ended = "returned" /\ riskCall.measure = measure /\ Fits

\* the loss rows of the call's scenarios: asset losses, then portfolio loss
Losses ==
  Tuple([i \in 1..Len(riskCall.simulatedReturns) |->
           LossRow(riskCall.simulatedReturns[i], riskCall.weights, Zero)])
PortfolioLosses == Tuple([i \in 1..Len(Losses) |-> Losses[i][Len(Losses[i])]])

\* min(floor((1 - alpha/100) * M), M - 1) in exact arithmetic
StatedQuantile(alpha, M) ==
  LET q == ((100 - alpha) * M) \div 100
  IN  IF q >= M THEN M - 1 ELSE q

\* a loss row with each asset entry multiplied by the asset's weight
Scaled(row, w) ==
  Tuple([j \in 1..Len(row) |-> IF j <= Len(w) THEN RMul(row[j], w[j]) ELSE row[j]])

\* scenario i can stand at position q (0-based) of an ascending ranking
RankedAt(pl, i, q) ==
  /\ Cardinality({k \in 1..Len(pl) : RLt(pl[k], pl[i])}) <= q
  /\ q < Cardinality({k \in 1..Len(pl) : RLe(pl[k], pl[i])})

\* C15: a VaR result is read from one scenario ranked at position
\* q = min(floor((1 - alpha/100) * M), M - 1) by ascending portfolio loss:
\* its last entry is that scenario's portfolio loss and entry j is weight j
\* times that scenario's loss of asset j
C15_VaRReadsQuantileScenario ==
  RiskReturned("VaR") =>
    \E i \in 1..Len(Losses) :
      /\ RankedAt(PortfolioLosses, i,
                  StatedQuantile(riskCall.alpha, Len(Losses)))
      /\ riskCall.results = Scaled(Losses[i], riskCall.weights)

\* the means of the columns of the loss rows over positions q.. of a ranking
TailMeans(indices, q) ==
  Tuple([j \in 1..Len(Losses[1]) |->
     RDiv(TailSum(Losses, indices, j, q + 1), R(Len(indices) - q, 1))])

\* C16: an ES result holds the means over the scenarios at positions
\* q..M-1 of an ascending ranking, q as for VaR: the last entry is the mean
\* of their portfolio losses, entry j weight j times the mean of their losses
\* of asset j
C16_ESMeansQuantileTail ==
  RiskReturned("ES") =>
    \E ties \in {"stable", "reversed"} :
      riskCall.results =
        Scaled(TailMeans(SortedIndices(PortfolioLosses, ties),
                         StatedQuantile(riskCall.alpha, Len(Losses))),
               riskCall.weights)

\* C17: the ranking is a stable ascending sort, equal portfolio losses
\* keeping the smaller scenario index first, so the result is the one the
\* stable ranking determines
C17_RankingIsStable ==
  (riskCall.ended = "returned" /\ Fits) =>
    riskCall.results =
      computePortfolioRiskMeasures(riskCall.simulatedReturns, riskCall.weights,
                                   riskCall.alpha, riskCall.measure,
                                   "stable", Zero)

\* C18: a call whose weight vector is not as long as the scenarios are wide
\* fails with RiskContributionSizeMismatch and produces no result
C18_SizeMismatchFails ==
  (riskCall.ended # "pending" /\ ~Fits) =>
    /\ riskCall.ended = "RiskContributionSizeMismatch"
    /\ riskCall.results = <<>>

\* C25: for VaR and for ES, the per-asset entries of a result computed on
\* scenarios as wide as the weight vector add up to its last, portfolio entry
C25_ContributionsSumToPortfolio ==
  (riskCall.ended = "returned" /\ Fits) =>
    LET res == riskCall.results
        N == Len(riskCall.weights)
    IN  /\ Len(res) = N + 1
        /\ VSum(SubSeq(res, 1, N)) = res[N + 1]

\* an ES over a tail of several scenarios with unequal weights, both asset
\* entries above 0
C25_Witness ==
  /\ RiskReturned("ES") /\ riskCall.alpha = 50
  /\ Len(riskCall.simulatedReturns) = MaxScenarios
  /\ riskCall.weights = <<R(1, 4), R(3, 4)>>
  /\ RGt(riskCall.results[1], Zero) /\ RGt(riskCall.results[2], Zero)

\* C29: when solveERC returns, after convergence or with its budget of at
\* least one iteration used up, the weights stored in the engine are the
\* weights returned, and the stored risk result is the one of those weights
C29_ReturnedWeightsAreStored ==
  \A e \in Engines :
    (/\ JustReturned(e)
     /\ optimizer[e].ended \in {"converged", "exhausted"}
     /\ optimizer[e].nMaxIterations_ >= 1) =>
      /\ weightsVector_[e] = lastCall[e].arg
      /\ riskContributions_[e] =
           computePortfolioRiskMeasures(simulatedDataReturns_[e],
             lastCall[e].arg, alpha_[e], "ES", sortTies, Zero)

\* the update in the words of the documentation: the proposal
\* w_i * target / max(rc_i, eps_rc) with target = |ES| / N, negative entries
\* set to 0, divided by its sum or uniform when that sum is <= 0, blended
\* with w by the damping and normalised
StatedProposal(w, rc, ES, floor, N) ==
  LET target == RDiv(RAbs(ES), R(N, 1))
      raw == [i \in 1..N |-> RDiv(RMul(w[i], target), RMax(rc[i], floor))]
      clamped == [i \in 1..N |-> IF RLt(raw[i], Zero) THEN Zero ELSE raw[i]]
      total == VSum(Tuple(clamped))
  IN  IF RLe(total, Zero) THEN [i \in 1..N |-> R(1, N)]
      ELSE [i \in 1..N |-> RDiv(clamped[i], total)]

StatedBlend(w, p, mix, N) ==
  LET mixed == [i \in 1..N |->
                  RAdd(RMul(RSub(One, mix), w[i]), RMul(mix, p[i]))]
      total == VSum(Tuple(mixed))
  IN  Tuple([i \in 1..N |-> RDiv(mixed[i], total)])

StatedUpdate(w, rc, ES, floor, mix, N) ==
  StatedBlend(w, StatedProposal(w, rc, ES, floor, N), mix, N)

\* the iteration of engine e that has just ended without converging: the
\* weights it evaluated, and the risk result it measured
Updated(e) == optimizer[e].pc = "loop" /\ optimizer[e].iter >= 1

Evaluated(e) == optimizer[e].pushed[Len(optimizer[e].pushed)]

\* C22: the weights after a non-converged iteration are the normalised
\* damped blend of the evaluated weights and the multiplicative proposal
\* built from the measured contributions and ES; they are uniform when the
\* measured ES is 0
C22_UpdateIsDampedProposal ==
  \A e \in Engines :
    Updated(e) =>
      LET o == optimizer[e]
          all == riskContributions_[e]
          N == Len(availableTickers_[e])
          ES == all[Len(all)]
      IN  /\ o.w = StatedUpdate(Evaluated(e), SubSeq(all, 1, N), ES,
                                o.eps_rc, o.damping, N)
          /\ ES = Zero =>
               o.w = StatedBlend(Evaluated(e), Const(N, R(1, N)), o.damping, N)

C22_Witness ==
  \E e \in Engines :
    /\ Updated(e)
    /\ optimizer[e].w # Evaluated(e)
    /\ optimizer[e].damping # One
    /\ \E i \in 1..Len(optimizer[e].rc) :
         RLt(optimizer[e].rc[i], optimizer[e].eps_rc)

\* the scenario set that runSimulation generates on engine e for the
\* weights w from the generator state rng, reads outside yielding g
ScenariosFor(e, w, rng, g) ==
  LET o == optimizer[e]
      ret == selectedDataReturns_[e]
      run == RunMany(nSimulations_[e], o.simMethod_, ret, w, nSamples_[e],
                     MethodBlock(o.simMethod_, o.param1_, blockSize_[e]),
                     MethodScalar(o.simMethod_, o.param1_, o.param2_),
                     rng, g, <<>>)
  IN  Tuple([i \in 1..nSimulations_[e] |->
         SimulatedMatrix(run.logs[i], nSamples_[e], ret, g)])

\* one step of the optimizer of engine e keeps the order of an iteration:
\* the weights are pushed at the loop head; the scenario set is generated
\* next, from the pushed weights; the risk result is computed next, from
\* that scenario set and those weights; the check comes next, and only the
\* check changes the weights
InOrder(e) ==
  LET o == optimizer[e]
      n == optimizer'[e]
  IN  /\ (n.pc = "simulate" /\ o.pc # "simulate") =>
           /\ o.pc = "loop"
           /\ n.w = o.w /\ weightsVector_'[e] = o.w
      /\ (n.pc = "measure" /\ o.pc # "measure") =>
           /\ o.pc = "simulate"
           /\ n.w = o.w /\ weightsVector_'[e] = o.w
           /\ ~crashed'[e] =>
                \E g \in Garbage :
                  simulatedDataReturns_'[e] = ScenariosFor(e, o.w, rng_[e], g)
      /\ (n.pc = "check" /\ o.pc # "check") =>
           /\ o.pc = "measure"
           /\ n.w = o.w /\ weightsVector_'[e] = o.w
           /\ simulatedDataReturns_'[e] = simulatedDataReturns_[e]
           /\ riskContributions_'[e] =
                computePortfolioRiskMeasures(simulatedDataReturns_[e], o.w,
                  alpha_[e], "ES", sortTies, Zero)
           /\ n.rc = SubSeq(riskContributions_'[e], 1, o.nAssets_)
           /\ n.ES = RAbs(getPortfolioLoss(riskContributions_'[e]))
      /\ (o.pc = "check" /\ n.pc # "check") =>
           /\ n.pc \in {"loop", "converged"}
           /\ UNCHANGED <<simulatedDataReturns_, riskContributions_,
                          weightsVector_>>
      /\ (o.pc # "idle" /\ n.w # o.w) => o.pc = "check"

\* C23: every optimizer iteration pushes the weights, regenerates the
\* scenario set, computes the ES risk result, checks convergence and updates
\* the weights, in this order, so that every risk result the optimizer reads
\* was computed from a scenario set generated after the last weight change,
\* with those weights
C23_IterationOrder == [][\A e \in Engines : InOrder(e)]_vars

\* a second iteration has measured the weights that the first one updated
C23_Witness ==
  \E e \in Engines :
    /\ optimizer[e].pc = "check" /\ optimizer[e].iter >= 1
    /\ optimizer[e].w # optimizer[e].pushed[1]
    /\ weightsVector_[e] = optimizer[e].w

\* engines a and b evaluate the same weights from the same generator state
\* with the same fixed inputs: a in the iteration on which its solveERC
\* converged, b in an iteration that has measured its rel_dev
SameEvaluation(a, b) ==
  /\ JustReturned(a) /\ optimizer[a].ended = "converged"
  /\ optimizer[b].pc = "check"
  /\ optimizer[b].w = optimizer[a].w
  /\ simLog[b].rng = simLog[a].rng
  /\ selectedDataReturns_[b] = selectedDataReturns_[a]
  /\ nSimulations_[b] = nSimulations_[a] /\ nSamples_[b] = nSamples_[a]
  /\ alpha_[b] = alpha_[a] /\ blockSize_[b] = blockSize_[a]
  /\ optimizer[b].simMethod_ = optimizer[a].simMethod_
  /\ optimizer[b].param1_ = optimizer[a].param1_
  /\ optimizer[b].param2_ = optimizer[a].param2_
  /\ optimizer[b].tol = optimizer[a].tol

\* C21: an iteration that evaluates the weights and the generator state of
\* a converged iteration again measures rel_dev <= tol again
C21_NoDriftOnceConverged ==
  \A a, b \in Engines :
    SameEvaluation(a, b) => RLe(optimizer[b].rel_dev, optimizer[b].tol)

(***************************************************************************)
(* Two engines                                                             *)
(***************************************************************************)
\* C5: two engines built from the same table and parameters, reseeded with
\* the same seed and driven through the same calls, hold the same scenario
\* sets, the same risk results and the same optimizer weight vectors, and
\* have got the same answers, whenever both have completed the same calls
C5_SameSeedSameResults ==
  (Level /\ lastCall[1].n >= 1) =>
    /\ crashed[1] = crashed[2]
    /\ simulatedDataReturns_[1] = simulatedDataReturns_[2]
    /\ riskContributions_[1] = riskContributions_[2]
    /\ optimizer[1].pushed = optimizer[2].pushed
    /\ weightsVector_[1] = weightsVector_[2]
    /\ lastCall[1] = lastCall[2]

\* C6: under every interleaving of the threads, an engine returns from each
\* solveERC the weights it returns when it runs alone with its seed: two
\* threads that got the same seed have the same weights returned from the
\* same call of their program, however their steps interleave
C6_ConcurrentEqualsAlone ==
  (/\ threadSeed[1] = threadSeed[2]
   /\ Level /\ lastCall[1].op = "solveERC") =>
    /\ lastCall[1].err = lastCall[2].err
    /\ lastCall[1].arg = lastCall[2].arg

====
